---- MODULE Spec2Model ----
(***************************************************************************)
(* EGourd mobile app: dual-model prediction arbitration and real-time      *)
(* stabilisation.                                                          *)
(*                                                                         *)
(*   - GeminiService.comparePredictions  (services/geminiService.js)       *)
(*   - ResultsScreenTM.runAnalysis       (screens/ScanScreens/             *)
(*                                        ResultsScreenTM.js)              *)
(*   - CameraScreen.analyzePicture       (unnamed/part_001)                *)
(*   - CameraScreenTM scanning loop      (ResultsScreenTM.js, second half) *)
(*                                                                         *)
(* Scores (rawScore, probabilities) are fixed-point numbers in thousandths *)
(* (0.80 is 800); percentages (confidence of a tick) are in tenths of a    *)
(* percent (50% is 500).  JavaScript null is the string "null".            *)
(***************************************************************************)
EXTENDS Integers, Sequences, FiniteSets, TLC

VARIABLES
    \* ---- arbitration of one (local, remote) pair ----
    cmpLocal,        \* tflitePrediction argument of comparePredictions
    cmpRemote,       \* geminiPrediction argument of comparePredictions
    cmpResult,       \* the object comparePredictions returned, or NoResult
    \* ---- one analysis session (ResultsScreenTM / CameraScreen) ----
    anScreen,        \* the screen that runs the session
    anPc,            \* where the session's async function stands
    tmPrediction,    \* the local prediction (tmPred / tflitePrediction)
    geminiPrediction,\* the remote prediction
    comparisonResult,\* what comparePredictions returned for the two
    prediction,      \* the final prediction shown / handed to Results
    validationStatus,\* CameraScreen: currentValidationStatus / route param
    showPredictionConflict, \* CameraScreen: the pending conflict, or null
    analysisError,   \* ResultsScreenTM: analysisError is set
    gemEnabled,      \* geminiService.isEnabled
    gemInitialized,  \* geminiService.isInitialized
    gemKey,          \* GEMINI_API_KEY is configured
    anGone,          \* the user has left the screen that runs the session
    capturedImage,   \* CameraScreen shows the preview of a captured photo
    \* ---- CameraScreenTM: the scanning loop ----
    camMounted,      \* the screen is mounted (cameraRef.current is set)
    camFocused,      \* the screen has the navigation focus
    modelInit,       \* modelServiceTM.initialize(): "loading", "done", "failed"
    isModelReady,    \* state isModelReady
    isScanning,      \* state isScanning
    isCapturing,     \* state isCapturing
    isStable,        \* state isStable
    scanIntervalRef, \* scanIntervalRef.current: "null" or "interval"
    ticks,           \* interval callbacks suspended at an await
    nextFrame,       \* number of the next photo the camera takes
    session,         \* number of resets of the tracking refs so far
    lastFrameUri,    \* lastFrameUri.current
    bestFrame,       \* bestFrame.current
    recentPredictions, \* recentPredictions.current
    predictions,     \* state predictions (the displayed top prediction)
    freshCapture,    \* handleCapture awaits its own takePictureAsync
    resultsImage,    \* imageUri param of the last navigation to ResultsTM
    tickLog,         \* outcomes of the interval callbacks since the refs
                     \* were last reset (history variable)
    \* ---- ModelServiceTM: the smoothing window ----
    isReady,         \* this.isReady
    modelType,       \* this.modelType
    predictionHistory, \* this.predictionHistory
    observed,        \* every raw output since the history was last emptied
    smoothed,        \* what the last predictWithAllProbabilities returned
    isInitializing,  \* this.isInitializing
    model,           \* the type of the model this.model holds, or "null"
    initCalls,       \* the calls of initialize: requested type and position
    \* ---- GeminiService.analyzeFlower: the response and its parsing ----
    text,            \* response.text(), by what the parsing reads of it
    analyzeFlowerResult \* what analyzeFlower returned or threw

cmpVars == <<cmpLocal, cmpRemote, cmpResult>>

gemVars == <<gemEnabled, gemInitialized, gemKey>>

anVars == <<anScreen, anPc, tmPrediction, geminiPrediction, comparisonResult,
            prediction, validationStatus, showPredictionConflict,
            analysisError, gemEnabled, gemInitialized, gemKey, anGone,
            capturedImage>>

trackVars == <<lastFrameUri, bestFrame, recentPredictions>>

scanVars == <<camMounted, camFocused, modelInit, isModelReady, isScanning,
              isCapturing, isStable, scanIntervalRef, ticks, nextFrame,
              session, lastFrameUri, bestFrame, recentPredictions,
              predictions, freshCapture, resultsImage, tickLog>>

smVars == <<isReady, modelType, predictionHistory, observed, smoothed,
            isInitializing, model, initCalls>>

parseVars == <<text, analyzeFlowerResult>>

vars == <<cmpLocal, cmpRemote, cmpResult,
          anScreen, anPc, tmPrediction, geminiPrediction, comparisonResult,
          prediction, validationStatus, showPredictionConflict,
          analysisError, gemEnabled, gemInitialized, gemKey, anGone,
          capturedImage,
          camMounted, camFocused, modelInit, isModelReady, isScanning,
          isCapturing, isStable, scanIntervalRef, ticks, nextFrame,
          session, lastFrameUri, bestFrame, recentPredictions,
          predictions, freshCapture, resultsImage, tickLog,
          isReady, modelType, predictionHistory, observed, smoothed,
          isInitializing, model, initCalls,
          text, analyzeFlowerResult>>

NoResult == [agree |-> FALSE, varietyMatch |-> FALSE, genderMatch |-> FALSE,
             confidence |-> -1, recommendation |-> "none", confidenceGap |-> -1]

(***************************************************************************)
(* Input space of the arbitrator.                                          *)
(***************************************************************************)
\* The display names both classifiers resolve to, and null.
Varieties == {"Ampalaya Bilog", "Patola", "Upo (Smooth)", "null"}

Genders == {"male", "female", "unknown", "null"}

\* rawScore values in thousandths: every threshold of the decision table
\* (0.65, 0.70, 0.80, 0.90, 0.95, 0.98) with a value on each side of it.
\* All values are even, so the mean of two of them is exact.
Scores == {600, 650, 660, 700, 790, 800, 810, 890, 900, 950, 970, 980, 1000}

Predictions == [variety : Varieties, gender : Genders, rawScore : Scores]

Max(a, b) == IF a >= b THEN a ELSE b

Abs(a) == IF a < 0 THEN -a ELSE a

(***************************************************************************)
(* GeminiService.comparePredictions, geminiService.js:722-786              *)
(***************************************************************************)
\* The label pairing of the species check (line 745).
speciesPairing(t, g) ==
    t.variety = "Upo (Smooth)" /\ g.variety = "Ampalaya Bilog"

\* The label pairing of the "female protection" rule (line 751).
femalePairing(t, g) ==
    t.gender = "female" /\ g.gender = "male"

\* Body of the species branch (line 746): recommendation stays 'manual'
\* unless the local score is above 0.8.
speciesCheck(t, g) ==
    IF t.rawScore > 800 THEN "tflite" ELSE "manual"

\* Body of the gender branch (lines 752-756).
genderCheck_NoLocalFloor(t, g) ==
    IF g.rawScore < 980 THEN "tflite"
    ELSE IF g.rawScore >= 980 THEN "gemini"
    ELSE "manual"

genderCheck(t, g) ==
    IF g.rawScore < 980 /\ t.rawScore > 650 THEN "tflite"
    ELSE IF g.rawScore >= 980 THEN "gemini"
    ELSE "manual"

\* The else-if chain on the two scores alone (lines 759-775).
confidenceRules_StrictLocal(t, g) ==
    IF t.rawScore > 980 THEN "tflite"
    ELSE IF g.rawScore >= 950 /\ t.rawScore < 700 THEN "gemini"
    ELSE IF t.rawScore >= 900 /\ g.rawScore < 900 THEN "tflite"
    ELSE IF g.rawScore >= 900 /\ t.rawScore < 800 THEN "gemini"
    ELSE "manual"

confidenceRules(t, g) ==
    IF t.rawScore >= 980 THEN "tflite"
    ELSE IF g.rawScore >= 950 /\ t.rawScore < 700 THEN "gemini"
    ELSE IF t.rawScore >= 900 /\ g.rawScore < 900 THEN "tflite"
    ELSE IF g.rawScore >= 900 /\ t.rawScore < 800 THEN "gemini"
    ELSE "manual"

\* The whole disagreement branch (lines 740-776): the two label pairings are
\* arms of the same if / else-if chain as the score rules, so an arm whose
\* pairing holds is the only arm that runs.
disagreeRecommendation_GenderFirst(t, g) ==
    IF femalePairing(t, g) THEN genderCheck(t, g)
    ELSE IF speciesPairing(t, g) THEN speciesCheck(t, g)
    ELSE confidenceRules(t, g)

disagreeRecommendation_FallThrough(t, g) ==
    IF speciesPairing(t, g) /\ speciesCheck(t, g) # "manual"
        THEN speciesCheck(t, g)
    ELSE IF femalePairing(t, g) /\ genderCheck(t, g) # "manual"
        THEN genderCheck(t, g)
    ELSE confidenceRules(t, g)

disagreeRecommendation(t, g) ==
    IF speciesPairing(t, g) THEN speciesCheck(t, g)
    ELSE IF femalePairing(t, g) THEN genderCheck(t, g)
    ELSE confidenceRules(t, g)

\* The agreement branch (lines 735-739).
agreeRecommendation_TieLocal(t, g) ==
    IF g.rawScore > t.rawScore THEN "gemini" ELSE "tflite"

agreeRecommendation(t, g) ==
    IF g.rawScore >= t.rawScore THEN "gemini" ELSE "tflite"

\* The reported confidence (lines 728-729, 782).
reportedConfidence_AlwaysAvg(t, g, bothAgree) ==
    (t.rawScore + g.rawScore) \div 2

reportedConfidence(t, g, bothAgree) ==
    LET avgConfidence == (t.rawScore + g.rawScore) \div 2
        maxConfidence == Max(t.rawScore, g.rawScore)
    IN  IF bothAgree THEN maxConfidence ELSE avgConfidence

comparePredictions(t, g) ==
    LET varietyMatch == t.variety = g.variety
        genderMatch  == t.gender = g.gender
        bothAgree    == varietyMatch /\ genderMatch
    IN  [agree          |-> bothAgree,
         varietyMatch   |-> varietyMatch,
         genderMatch    |-> genderMatch,
         confidence     |-> reportedConfidence(t, g, bothAgree),
         recommendation |-> IF bothAgree THEN agreeRecommendation(t, g)
                                         ELSE disagreeRecommendation(t, g),
         confidenceGap  |-> Abs(t.rawScore - g.rawScore)]

(***************************************************************************)
(* The predictions an analysis session works on.                           *)
(***************************************************************************)
\* A TM label is the sequence of its words; String.includes of a word is
\* membership ('Female' does not include 'Male': includes is case-sensitive).
TM_LABELS ==
    { <<"Ampalaya", "Bilog", "Male">>, <<"Ampalaya", "Bilog", "Female">>,
      <<"Patola", "Female">>, <<"Patola", "Male">>,
      <<"Upo", "Smooth", "Female">>, <<"Upo", "Smooth", "Male">> }

NotFlowerLabel == <<"Not", "Flower">>

includes(label, word) == \E i \in DOMAIN label : label[i] = word

\* ResultsScreenTM.getVarietyFromLabel (lines 342-349).
getVarietyFromLabel(label) ==
    IF includes(label, "Ampalaya") THEN "Ampalaya Bilog"
    ELSE IF includes(label, "Patola") THEN "Patola"
    ELSE IF includes(label, "Upo") THEN "Upo (Smooth)"
    ELSE "null"

\* ResultsScreenTM.getGenderFromLabel (lines 351-356).
getGenderFromLabel(label) ==
    IF includes(label, "Male") THEN "male"
    ELSE IF includes(label, "Female") THEN "female"
    ELSE "unknown"

NoPrediction == [variety |-> "null", gender |-> "null", rawScore |-> -1,
                 isNotFlower |-> FALSE, source |-> "none"]

\* No response received, analyzeFlower not called.
NoText == [braces |-> FALSE, valid |-> FALSE,
           parsed |-> [variety |-> "undefined", gender |-> "undefined",
                       confidence |-> -1],
           extracted |-> [variety |-> "null", gender |-> "null",
                          confidence |-> -1]]

NoFlags == [isLowConfidence |-> FALSE, isUncertain |-> FALSE,
            shouldReject |-> FALSE]

NotCalled == [error |-> "not called", prediction |-> NoPrediction,
              flags |-> NoFlags]

ParseIdle ==
    /\ text = NoText
    /\ analyzeFlowerResult = NotCalled

\* tmPred as runAnalysis builds it from the top prediction (lines 413-424).
tmPredOf(label, probability) ==
    [variety     |-> getVarietyFromLabel(label),
     gender      |-> getGenderFromLabel(label),
     rawScore    |-> probability,
     isNotFlower |-> label = NotFlowerLabel,
     source      |-> "tflite"]

\* modelService.parseMultiClassOutput with config.classLabels (part_006).
parseMultiClassOutput(label, probability) ==
    [variety     |-> IF label = NotFlowerLabel THEN "null"
                     ELSE getVarietyFromLabel(label),
     gender      |-> IF label = NotFlowerLabel THEN "null"
                     ELSE getGenderFromLabel(label),
     rawScore    |-> probability,
     isNotFlower |-> label = NotFlowerLabel,
     source      |-> "tflite"]

\* The fields of the parsed Gemini response that formatPrediction reads.
GeminiVarieties == {"ampalaya_bilog", "patola", "upo_smooth", "not_flower"}

GeminiGenders == {"male", "female", "unknown"}

\* GeminiService.formatPrediction (geminiService.js:589-684), the fields the
\* arbitration and the screens read.
formatPrediction(geminiResult) ==
    LET isNotFlower == geminiResult.variety = "not_flower"
        isFlower == ~isNotFlower
        varietyDisplay ==
            IF geminiResult.variety = "ampalaya_bilog" THEN "Ampalaya Bilog"
            ELSE IF geminiResult.variety = "patola" THEN "Patola"
            ELSE IF geminiResult.variety = "upo_smooth" THEN "Upo (Smooth)"
            ELSE "null"
    IN  [variety     |-> varietyDisplay,
         gender      |-> IF isFlower THEN geminiResult.gender ELSE "null",
         rawScore    |-> geminiResult.confidence,
         isNotFlower |-> isNotFlower,
         source      |-> "gemini"]

\* Scores the two classifiers return in an analysis session: one below every
\* threshold and 0.90.
AnScores == {600, 900}

LocalLabels == TM_LABELS \cup {NotFlowerLabel}

GeminiResults ==
    [variety : GeminiVarieties, gender : GeminiGenders, confidence : AnScores]

NoConflict == [tflite |-> NoPrediction, gemini |-> NoPrediction,
               comparison |-> NoResult, pending |-> FALSE]

(***************************************************************************)
(* GeminiService.initialize / isAvailable, geminiService.js:385-424        *)
(***************************************************************************)
isAvailable == gemEnabled /\ gemInitialized

\* initialize(): the values of <<isEnabled, isInitialized>> it leaves.
\* constructOk is whether the GoogleGenerativeAI construction succeeds.
initialize(constructOk) ==
    IF gemInitialized THEN <<gemEnabled, gemInitialized>>
    ELSE IF ~gemEnabled THEN <<gemEnabled, gemInitialized>>
    ELSE IF ~gemKey THEN <<FALSE, gemInitialized>>
    ELSE IF constructOk THEN <<gemEnabled, TRUE>>
    ELSE <<FALSE, gemInitialized>>

(***************************************************************************)
(* ModelServiceTM.predictWithAllProbabilities: smoothing and the           *)
(* synthesized 'Not Flower' entry (modelServiceTM.js:189-284).             *)
(* A raw output is the output tensor, one value per label in the order of  *)
(* TM_LABELS, in hundredths.  A mean is kept as its sum over the window    *)
(* and the window length: the probability of an entry with numerator num   *)
(* is num / (n * Unit).                                                    *)
(***************************************************************************)
\* this.historySize (line 34).
historySize == 5

\* CONFIDENCE_THRESHOLD (line 253), in hundredths.
CONFIDENCE_THRESHOLD == 70

\* The value of probability 1.0 in the unit of the raw outputs.
Unit == 100

\* this.labels in index order (lines 14-21).
labels ==
    << "Ampalaya Bilog Male", "Ampalaya Bilog Female", "Patola Female",
       "Patola Male", "Upo Smooth Female", "Upo Smooth Male" >>

numClasses == Len(labels)

\* Output tensors of the model: a confident one; one whose top value 0.55
\* is below the threshold and above its complement; one whose two top
\* values tie at 0.40; one whose top value 0.50 equals its complement and
\* averages with the confident one to exactly 0.70.
RawOutputs ==
    { <<2, 2, 2, 90, 2, 2>>, <<5, 5, 5, 25, 55, 5>>,
      <<40, 40, 5, 5, 5, 5>>, <<10, 10, 10, 50, 10, 10>> }

\* Calls of predictWithAllProbabilities in one run.
MaxObserved == 6

ModelTypes == {"float", "quantized"}

NoSmoothed == [n |-> 0, predictions |-> <<>>, isUncertain |-> FALSE]

\* The service after its first successful initialize().
SmoothIdle ==
    /\ isReady = TRUE
    /\ modelType = "float"
    /\ predictionHistory = <<>>
    /\ observed = <<>>
    /\ smoothed = NoSmoothed
    /\ isInitializing = FALSE
    /\ model = "float"
    /\ initCalls = <<>>

\* push, then shift beyond historySize entries (lines 218-221).
pushHistory_KeepsSix(history, raw) ==
    LET pushed == Append(history, raw)
    IN  IF Len(pushed) > historySize + 1 THEN Tail(pushed) ELSE pushed

pushHistory(history, raw) ==
    LET pushed == Append(history, raw)
    IN  IF Len(pushed) > historySize THEN Tail(pushed) ELSE pushed

RECURSIVE sumOf(_, _, _)
\* The inner loop of lines 227-230: the sum of value i over the first k
\* entries of the window.
sumOf(history, i, k) ==
    IF k = 0 THEN 0 ELSE sumOf(history, i, k - 1) + history[k][i]

\* averagedProbs (lines 223-232), as numerators over Len(history) * Unit.
averagedProbs_SkipsOldest(history) ==
    [i \in 1..numClasses |->
        sumOf(history, i, Len(history))
          - (IF Len(history) > 1 THEN history[1][i] ELSE 0)]

averagedProbs(history) ==
    [i \in 1..numClasses |-> sumOf(history, i, Len(history))]

\* predictions.sort((a, b) => b.probability - a.probability) on the array
\* built in index order (lines 236-249): descending, equal values in index
\* order.
sortedByProbability(avg) ==
    LET before(i, j) == avg[i] > avg[j] \/ (avg[i] = avg[j] /\ i < j)
        rank(j) == 1 + Cardinality({i \in 1..numClasses : before(i, j)})
    IN  [r \in 1..numClasses |->
            LET j == CHOOSE j \in 1..numClasses : rank(j) = r
            IN  [label |-> labels[j], num |-> avg[j], isSynthetic |-> FALSE]]

\* isUncertain (line 254): the top mean is below the threshold.
isUncertain_AtThreshold(top, n) == top.num * 100 <= CONFIDENCE_THRESHOLD * n * Unit

isUncertain(top, n) == top.num * 100 < CONFIDENCE_THRESHOLD * n * Unit

withNotFlower_First(sorted, n) ==
    LET notFlower == [label |-> "Not Flower",
                      num |-> n * Unit - sorted[1].num,
                      isSynthetic |-> TRUE]
    IN  <<notFlower>> \o sorted

\* The pushed 'Not Flower' entry and the second sort (lines 256-267): the
\* entry, pushed last, comes after every entry that is not below it.
withNotFlower(sorted, n) ==
    LET notFlower == [label |-> "Not Flower",
                      num |-> n * Unit - sorted[1].num,
                      isSynthetic |-> TRUE]
        ahead == Cardinality({k \in DOMAIN sorted :
                                 sorted[k].num >= notFlower.num})
    IN  [k \in 1..(Len(sorted) + 1) |->
            IF k <= ahead THEN sorted[k]
            ELSE IF k = ahead + 1 THEN notFlower
            ELSE sorted[k - 1]]

\* What predictWithAllProbabilities returns for a window (lines 223-278);
\* topPrediction is predictions[1].
smooth(history) ==
    LET n == Len(history)
        sorted == sortedByProbability(averagedProbs(history))
        uncertain == isUncertain(sorted[1], n)
    IN  [n |-> n,
         predictions |-> IF uncertain THEN withNotFlower(sorted, n)
                                      ELSE sorted,
         isUncertain |-> uncertain]

\* Values of the camera screen's refs and state before any tick.
NoFrame == [uri |-> 0, session |-> 0]

EmptyBestFrame == [frame |-> NoFrame, label |-> "null", confidence |-> 0]

NoPredictions == [label |-> "null", confidence |-> 0]

\* The camera screen before it is mounted.
ScanIdle ==
    /\ camMounted = FALSE
    /\ camFocused = FALSE
    /\ modelInit = "loading"
    /\ isModelReady = FALSE
    /\ isScanning = FALSE
    /\ isCapturing = FALSE
    /\ isStable = FALSE
    /\ scanIntervalRef = "null"
    /\ ticks = {}
    /\ nextFrame = 1
    /\ session = 0
    /\ lastFrameUri = NoFrame
    /\ bestFrame = EmptyBestFrame
    /\ recentPredictions = <<>>
    /\ predictions = NoPredictions
    /\ freshCapture = FALSE
    /\ resultsImage = NoFrame
    /\ tickLog = <<>>

(***************************************************************************)
(* The analysis session.                                                   *)
(*   ResultsScreenTM.runAnalysis   ResultsScreenTM.js:390-493              *)
(*   CameraScreen.analyzePicture   unnamed/part_001:224-323                *)
(***************************************************************************)
AnalysisIdle ==
    /\ anScreen = "ResultsTM"
    /\ anPc = "idle"
    /\ tmPrediction = NoPrediction
    /\ geminiPrediction = NoPrediction
    /\ comparisonResult = NoResult
    /\ prediction = NoPrediction
    /\ validationStatus = "tflite_only"
    /\ showPredictionConflict = NoConflict
    /\ analysisError = FALSE
    /\ gemEnabled = FALSE
    /\ gemInitialized = FALSE
    /\ gemKey = FALSE
    /\ anGone = FALSE
    /\ capturedImage = FALSE

InitAnalysis ==
    /\ anScreen \in {"ResultsTM", "Camera"}
    /\ anPc = "idle"
    /\ tmPrediction = NoPrediction
    /\ geminiPrediction = NoPrediction
    /\ comparisonResult = NoResult
    /\ prediction = NoPrediction
    /\ validationStatus = "tflite_only"
    /\ showPredictionConflict = NoConflict
    /\ analysisError = FALSE
    /\ gemEnabled \in BOOLEAN
    /\ gemInitialized = FALSE
    /\ gemKey \in BOOLEAN
    /\ anGone = FALSE
    /\ capturedImage = (anScreen = "Camera")
    /\ cmpLocal = NoPrediction
    /\ cmpRemote = NoPrediction
    /\ cmpResult = NoResult
    /\ ScanIdle
    /\ SmoothIdle
    /\ ParseIdle

\* A state setter of ResultsScreenTM called by runAnalysis: React drops the
\* update of a component that is no longer mounted.  runAnalysis itself
\* tests nothing before it calls its setters (lines 425, 455, 461, 476).
setState(old, new) == IF anGone THEN old ELSE new

\* runAnalysis up to the first await (lines 391-400); also the "Try Again"
\* button of the error card.
runAnalysis ==
    /\ anScreen = "ResultsTM"
    /\ ~anGone
    /\ anPc \in {"idle", "failed"}
    /\ anPc' = "local"
    /\ analysisError' = FALSE
    /\ UNCHANGED <<anScreen, tmPrediction, geminiPrediction, comparisonResult,
                   prediction, validationStatus, showPredictionConflict>>
    /\ UNCHANGED gemVars
    /\ UNCHANGED <<anGone, capturedImage>>
    /\ UNCHANGED cmpVars
    /\ UNCHANGED parseVars
    /\ UNCHANGED smVars
    /\ UNCHANGED scanVars

\* tmPrediction also stands for runAnalysis's local tmPred, which the later
\* steps of the call read.
\* quickPredict resolves: tmPred is built, Gemini is initialized, and either
\* analyzeFlower is called or the session ends on the local prediction
\* (lines 400-443, 463-476).
runAnalysis_tmDone ==
    /\ anScreen = "ResultsTM"
    /\ anPc = "local"
    /\ \E label \in LocalLabels, p \in AnScores, constructOk \in BOOLEAN :
         LET tmPred == tmPredOf(label, p)
             g == initialize(constructOk)
         IN  /\ tmPrediction' = tmPred
             /\ gemEnabled' = g[1]
             /\ gemInitialized' = g[2]
             /\ IF g[1] /\ g[2]
                  THEN /\ anPc' = "remote"
                       /\ UNCHANGED prediction
                  ELSE /\ anPc' = "finalized"
                       /\ prediction' = setState(prediction, tmPred)
    /\ UNCHANGED <<anScreen, geminiPrediction, comparisonResult,
                   validationStatus, showPredictionConflict, analysisError,
                   gemKey>>
    /\ UNCHANGED <<anGone, capturedImage>>
    /\ UNCHANGED cmpVars
    /\ UNCHANGED parseVars
    /\ UNCHANGED smVars
    /\ UNCHANGED scanVars

\* quickPredict rejects: the outer catch (lines 487-489).
runAnalysis_tmFail ==
    /\ anScreen = "ResultsTM"
    /\ anPc = "local"
    /\ anPc' = "failed"
    /\ analysisError' = setState(analysisError, TRUE)
    /\ UNCHANGED <<anScreen, tmPrediction, geminiPrediction, comparisonResult,
                   prediction, validationStatus, showPredictionConflict>>
    /\ UNCHANGED gemVars
    /\ UNCHANGED <<anGone, capturedImage>>
    /\ UNCHANGED cmpVars
    /\ UNCHANGED parseVars
    /\ UNCHANGED smVars
    /\ UNCHANGED scanVars

\* The final prediction of runAnalysis (lines 472-476).
finalPred_RemoteOnly(tmPred, geminiPred, comparison) == geminiPred

finalPred(tmPred, geminiPred, comparison) ==
    IF geminiPred # NoPrediction THEN geminiPred ELSE tmPred

\* analyzeFlower resolves (lines 443-462, 472-476).
runAnalysis_geminiDone ==
    /\ anScreen = "ResultsTM"
    /\ anPc = "remote"
    /\ \E geminiResult \in GeminiResults :
         LET geminiPred == formatPrediction(geminiResult)
             comparison == IF ~tmPrediction.isNotFlower
                             THEN comparePredictions(tmPrediction, geminiPred)
                             ELSE NoResult
         IN  /\ geminiPrediction' = setState(geminiPrediction, geminiPred)
             /\ comparisonResult' = setState(comparisonResult, comparison)
             /\ prediction' = setState(prediction,
                                  finalPred(tmPrediction, geminiPred, comparison))
    /\ anPc' = "finalized"
    /\ UNCHANGED <<anScreen, tmPrediction, validationStatus,
                   showPredictionConflict, analysisError>>
    /\ UNCHANGED gemVars
    /\ UNCHANGED <<anGone, capturedImage>>
    /\ UNCHANGED cmpVars
    /\ UNCHANGED parseVars
    /\ UNCHANGED smVars
    /\ UNCHANGED scanVars

\* analyzeFlower rejects: the inner catch (lines 466-476).
runAnalysis_geminiFail ==
    /\ anScreen = "ResultsTM"
    /\ anPc = "remote"
    /\ prediction' = setState(prediction,
                         finalPred(tmPrediction, NoPrediction, NoResult))
    /\ anPc' = "finalized"
    /\ UNCHANGED <<anScreen, tmPrediction, geminiPrediction, comparisonResult,
                   validationStatus, showPredictionConflict, analysisError>>
    /\ UNCHANGED gemVars
    /\ UNCHANGED <<anGone, capturedImage>>
    /\ UNCHANGED cmpVars
    /\ UNCHANGED parseVars
    /\ UNCHANGED smVars
    /\ UNCHANGED scanVars

\* analyzePicture up to the first await (part_001:225-241).  The Analyze
\* button belongs to the preview of the captured photo and is disabled
\* while isProcessing is true or the model is not ready (part_001:370-374);
\* a pending conflict does not disable it.  On CameraScreen tmPrediction,
\* geminiPrediction and comparisonResult stand for the locals of the call
\* (part_001:241-247), which every call starts afresh.
analyzePicture ==
    /\ anScreen = "Camera"
    /\ ~anGone
    /\ capturedImage
    /\ anPc \in {"idle", "awaiting"}
    /\ anPc' = "local"
    /\ tmPrediction' = NoPrediction
    /\ geminiPrediction' = NoPrediction
    /\ comparisonResult' = NoResult
    /\ UNCHANGED <<anScreen, prediction, validationStatus,
                   showPredictionConflict, analysisError>>
    /\ UNCHANGED gemVars
    /\ UNCHANGED <<anGone, capturedImage>>
    /\ UNCHANGED cmpVars
    /\ UNCHANGED parseVars
    /\ UNCHANGED smVars
    /\ UNCHANGED scanVars

\* predictFlowerGender resolves (part_001:241-258, 287-306).
analyzePicture_tfliteDone ==
    /\ anScreen = "Camera"
    /\ anPc = "local"
    /\ \E label \in LocalLabels, p \in AnScores, constructOk \in BOOLEAN :
         LET tflitePrediction == parseMultiClassOutput(label, p)
             g == IF ~isAvailable THEN initialize(constructOk)
                                  ELSE <<gemEnabled, gemInitialized>>
         IN  /\ tmPrediction' = tflitePrediction
             /\ gemEnabled' = g[1]
             /\ gemInitialized' = g[2]
             /\ IF g[1] /\ g[2]
                  THEN /\ anPc' = "remote"
                       /\ UNCHANGED <<prediction, validationStatus>>
                  ELSE /\ anPc' = "finalized"
                       /\ prediction' = tflitePrediction
                       /\ validationStatus' = "tflite_only"
    /\ UNCHANGED <<anScreen, geminiPrediction, comparisonResult,
                   showPredictionConflict, analysisError, gemKey>>
    /\ UNCHANGED <<anGone, capturedImage>>
    /\ UNCHANGED cmpVars
    /\ UNCHANGED parseVars
    /\ UNCHANGED smVars
    /\ UNCHANGED scanVars

\* predictFlowerGender rejects: the outer catch shows the alert
\* (part_001:308-322).
analyzePicture_tfliteFail ==
    /\ anScreen = "Camera"
    /\ anPc = "local"
    /\ anPc' = "idle"
    /\ UNCHANGED <<anScreen, tmPrediction, geminiPrediction, comparisonResult,
                   prediction, validationStatus, showPredictionConflict,
                   analysisError>>
    /\ UNCHANGED gemVars
    /\ UNCHANGED <<anGone, capturedImage>>
    /\ UNCHANGED cmpVars
    /\ UNCHANGED parseVars
    /\ UNCHANGED smVars
    /\ UNCHANGED scanVars

\* Whether analyzePicture finalizes by itself (part_001:265): on agreement.
settlesWithoutUser(comparison) == comparison.agree

\* analyzeFlower resolves (part_001:258-306).
analyzePicture_geminiDone ==
    /\ anScreen = "Camera"
    /\ anPc = "remote"
    /\ \E geminiResult \in GeminiResults :
         LET geminiPred == formatPrediction(geminiResult)
             comparison == comparePredictions(tmPrediction, geminiPred)
         IN  /\ geminiPrediction' = geminiPred
             /\ comparisonResult' = comparison
             /\ IF settlesWithoutUser(comparison)
                  THEN /\ validationStatus' = "validated"
                       /\ prediction' =
                            IF comparison.recommendation = "gemini"
                              THEN geminiPred ELSE tmPrediction
                       /\ anPc' = "finalized"
                       /\ UNCHANGED showPredictionConflict
                  ELSE /\ showPredictionConflict' =
                            [tflite |-> tmPrediction, gemini |-> geminiPred,
                             comparison |-> comparison, pending |-> TRUE]
                       /\ anPc' = "awaiting"
                       /\ UNCHANGED <<prediction, validationStatus>>
    /\ UNCHANGED <<anScreen, tmPrediction, analysisError>>
    /\ UNCHANGED gemVars
    /\ UNCHANGED <<anGone, capturedImage>>
    /\ UNCHANGED cmpVars
    /\ UNCHANGED parseVars
    /\ UNCHANGED smVars
    /\ UNCHANGED scanVars

\* analyzeFlower rejects: the inner catch, then Results (part_001:291-306).
analyzePicture_geminiFail ==
    /\ anScreen = "Camera"
    /\ anPc = "remote"
    /\ validationStatus' = "tflite_only"
    /\ prediction' = tmPrediction
    /\ anPc' = "finalized"
    /\ UNCHANGED <<anScreen, tmPrediction, geminiPrediction, comparisonResult,
                   showPredictionConflict, analysisError>>
    /\ UNCHANGED gemVars
    /\ UNCHANGED <<anGone, capturedImage>>
    /\ UNCHANGED cmpVars
    /\ UNCHANGED parseVars
    /\ UNCHANGED smVars
    /\ UNCHANGED scanVars

\* The conflict modal is an element of the camera view, which the screen
\* returns only when capturedImage is null; with a captured photo the
\* screen returns the preview and nothing else (part_001:344-394, 396-499).
conflictModalShown == showPredictionConflict.pending /\ ~capturedImage

\* handleConflictResolution(chosenPrediction, source) (part_001:328-342),
\* called by the two option buttons of the modal (part_001:523-612).
handleConflictResolution ==
    /\ anScreen = "Camera"
    /\ ~anGone
    /\ conflictModalShown
    /\ showPredictionConflict.pending
    /\ \E source \in {"tflite", "gemini"} :
         prediction' = IF source = "tflite" THEN showPredictionConflict.tflite
                                            ELSE showPredictionConflict.gemini
    /\ validationStatus' = "manual_override"
    /\ showPredictionConflict' = NoConflict
    /\ anPc' = "finalized"
    /\ UNCHANGED <<anScreen, tmPrediction, geminiPrediction, comparisonResult,
                   analysisError>>
    /\ UNCHANGED gemVars
    /\ UNCHANGED <<anGone, capturedImage>>
    /\ UNCHANGED cmpVars
    /\ UNCHANGED parseVars
    /\ UNCHANGED smVars
    /\ UNCHANGED scanVars

\* "Cancel & Retake Photo" and the modal's onRequestClose
\* (part_001:503, 615-621).
cancelConflict ==
    /\ anScreen = "Camera"
    /\ ~anGone
    /\ conflictModalShown
    /\ showPredictionConflict.pending
    /\ showPredictionConflict' = NoConflict
    /\ anPc' = "idle"
    /\ UNCHANGED <<anScreen, tmPrediction, geminiPrediction, comparisonResult,
                   prediction, validationStatus, analysisError>>
    /\ UNCHANGED gemVars
    /\ UNCHANGED <<anGone, capturedImage>>
    /\ UNCHANGED cmpVars
    /\ UNCHANGED parseVars
    /\ UNCHANGED smVars
    /\ UNCHANGED scanVars

\* The user leaves the screen that runs the session.  ResultsTM is popped
\* from the stack and unmounted (ResultsScreenTM.js:517, 674);
\* the camera screen stays mounted under another tab.  Neither screen
\* defines an effect cleanup, a mounted flag or a cancellation for the
\* calls in flight.
leaveScreen ==
    /\ ~anGone
    /\ anPc # "idle"
    /\ anGone' = TRUE
    /\ UNCHANGED capturedImage
    /\ UNCHANGED <<anScreen, anPc, tmPrediction, geminiPrediction,
                   comparisonResult, prediction, validationStatus,
                   showPredictionConflict, analysisError>>
    /\ UNCHANGED gemVars
    /\ UNCHANGED cmpVars
    /\ UNCHANGED parseVars
    /\ UNCHANGED smVars
    /\ UNCHANGED scanVars

\* The user comes back to the tab of the camera screen.
returnToScreen ==
    /\ anScreen = "Camera"
    /\ anGone
    /\ anGone' = FALSE
    /\ UNCHANGED capturedImage
    /\ UNCHANGED <<anScreen, anPc, tmPrediction, geminiPrediction,
                   comparisonResult, prediction, validationStatus,
                   showPredictionConflict, analysisError>>
    /\ UNCHANGED gemVars
    /\ UNCHANGED cmpVars
    /\ UNCHANGED parseVars
    /\ UNCHANGED smVars
    /\ UNCHANGED scanVars

\* The Retake button of the preview (part_001:220-222, 361-365), disabled
\* while isProcessing is true.
retakePicture ==
    /\ anScreen = "Camera"
    /\ ~anGone
    /\ capturedImage
    /\ anPc \notin {"local", "remote"}
    /\ capturedImage' = FALSE
    /\ UNCHANGED <<anScreen, anPc, tmPrediction, geminiPrediction,
                   comparisonResult, prediction, validationStatus,
                   showPredictionConflict, analysisError, anGone>>
    /\ UNCHANGED gemVars
    /\ UNCHANGED cmpVars
    /\ UNCHANGED parseVars
    /\ UNCHANGED smVars
    /\ UNCHANGED scanVars

\* The capture button of the camera view (part_001:186-201); an open modal
\* covers the camera view.
takePicture ==
    /\ anScreen = "Camera"
    /\ ~anGone
    /\ ~capturedImage
    /\ ~showPredictionConflict.pending
    /\ anPc = "idle"
    /\ capturedImage' = TRUE
    /\ UNCHANGED <<anScreen, anPc, tmPrediction, geminiPrediction,
                   comparisonResult, prediction, validationStatus,
                   showPredictionConflict, analysisError, anGone>>
    /\ UNCHANGED gemVars
    /\ UNCHANGED cmpVars
    /\ UNCHANGED parseVars
    /\ UNCHANGED smVars
    /\ UNCHANGED scanVars

NextAnalysis ==
    \/ runAnalysis
    \/ runAnalysis_tmDone
    \/ runAnalysis_tmFail
    \/ runAnalysis_geminiDone
    \/ runAnalysis_geminiFail
    \/ analyzePicture
    \/ analyzePicture_tfliteDone
    \/ analyzePicture_tfliteFail
    \/ analyzePicture_geminiDone
    \/ analyzePicture_geminiFail
    \/ handleConflictResolution
    \/ cancelConflict
    \/ leaveScreen
    \/ returnToScreen
    \/ retakePicture
    \/ takePicture

SpecAnalysis == InitAnalysis /\ [][NextAnalysis]_vars

(***************************************************************************)
(* CameraScreenTM: stability tracking of one tick                          *)
(* (ResultsScreenTM.js:1364-1419).  Confidences are percentages in tenths  *)
(* of a percent.                                                           *)
(***************************************************************************)
\* Length of the recentPredictions buffer (line 1377).
RecentSize == 7

\* Number of trailing entries the stability test reads (lines 1384-1385).
StableCount == 5

pushRecent_KeepsEight(recent, entry) ==
    LET pushed == Append(recent, entry)
    IN  IF Len(pushed) > RecentSize + 1 THEN Tail(pushed) ELSE pushed

\* recentPredictions.current.push(...), then shift() beyond 7 entries.
pushRecent(recent, entry) ==
    LET pushed == Append(recent, entry)
    IN  IF Len(pushed) > RecentSize THEN Tail(pushed) ELSE pushed

\* recent.slice(-5)
lastFive(recent) ==
    IF Len(recent) <= StableCount THEN recent
    ELSE SubSeq(recent, Len(recent) - StableCount + 1, Len(recent))

stableNow_FourSuffice(recent, currentLabel) ==
    /\ Len(lastFive(recent)) >= StableCount - 1
    /\ \A i \in DOMAIN lastFive(recent) :
         lastFive(recent)[i].label = currentLabel

\* stableNow (line 1385).
stableNow(recent, currentLabel) ==
    /\ Len(lastFive(recent)) >= StableCount
    /\ \A i \in DOMAIN lastFive(recent) :
         lastFive(recent)[i].label = currentLabel

\* The value given to setIsStable (line 1388).
stableFlag(stable, currentLabel) == stable /\ currentLabel # "Not Flower"

updateBestFrame_LatestStable(best, frame, currentLabel, currentConfidence, stable) ==
    IF stable /\ currentLabel # "Not Flower"
      THEN [frame |-> frame, label |-> currentLabel,
            confidence |-> currentConfidence]
      ELSE best

updateBestFrame_OnEqual(best, frame, currentLabel, currentConfidence, stable) ==
    IF stable /\ currentLabel # "Not Flower"
         /\ currentConfidence >= best.confidence
      THEN [frame |-> frame, label |-> currentLabel,
            confidence |-> currentConfidence]
      ELSE best

\* The best-frame update (lines 1391-1419): both arms of the label test
\* replace the frame on a strictly higher confidence.
updateBestFrame(best, frame, currentLabel, currentConfidence, stable) ==
    IF stable /\ currentLabel # "Not Flower"
         /\ currentConfidence > best.confidence
      THEN [frame |-> frame, label |-> currentLabel,
            confidence |-> currentConfidence]
      ELSE best

(***************************************************************************)
(* CameraScreenTM: effects, scanning loop and capture                      *)
(* (ResultsScreenTM.js:1235-1584).                                         *)
(***************************************************************************)
\* Photos the camera takes in one run of the model.
MaxFrames == 4

\* Interval callbacks suspended at an await at the same time.
MaxInFlight == 2

\* Resets of the tracking refs (focus effect runs) in one run of the model.
MaxSessions == 3

\* Top predictions quickPredict returns to a tick.
TickLabels == {"Patola Male", "Not Flower"}

TickConfidences == {550, 900}

\* The screen after its first render and effects: the init effect has called
\* initialize() (lines 1265-1289), the focus effect has reset the refs and,
\* the model not being ready, started nothing (lines 1297-1311).
InitScan ==
    /\ camMounted = TRUE
    /\ camFocused = TRUE
    /\ modelInit = "loading"
    /\ isModelReady = FALSE
    /\ isScanning = FALSE
    /\ isCapturing = FALSE
    /\ isStable = FALSE
    /\ scanIntervalRef = "null"
    /\ ticks = {}
    /\ nextFrame = 1
    /\ session = 1
    /\ lastFrameUri = NoFrame
    /\ bestFrame = EmptyBestFrame
    /\ recentPredictions = <<>>
    /\ predictions = NoPredictions
    /\ freshCapture = FALSE
    /\ resultsImage = NoFrame
    /\ tickLog = <<>>
    /\ cmpLocal = NoPrediction
    /\ cmpRemote = NoPrediction
    /\ cmpResult = NoResult
    /\ AnalysisIdle
    /\ SmoothIdle
    /\ ParseIdle

\* initialize() resolves and setIsModelReady(true) re-renders (lines
\* 1272-1273).  A focused screen re-runs the focus effect (its dependencies
\* changed): cleanup, reset, startScanning (lines 1298-1311); then the start
\* effect, whose render still has isScanning false, calls startScanning
\* again, which replaces the interval (lines 1322-1326, 1332-1337).  On a
\* screen without focus only the start effect runs.
initializeModel_done ==
    /\ modelInit = "loading"
    /\ modelInit' = "done"
    /\ IF camMounted
         THEN /\ isModelReady' = TRUE
              /\ scanIntervalRef' = "interval"
              /\ isScanning' = TRUE
              /\ IF camFocused /\ session < MaxSessions
                   THEN /\ session' = session + 1
                        /\ isCapturing' = FALSE
                        /\ isStable' = FALSE
                        /\ lastFrameUri' = NoFrame
                        /\ bestFrame' = EmptyBestFrame
                        /\ recentPredictions' = <<>>
                   ELSE UNCHANGED <<session, isCapturing, isStable,
                                    lastFrameUri, bestFrame, recentPredictions>>
         ELSE UNCHANGED <<isModelReady, scanIntervalRef, isScanning, session,
                          isCapturing, isStable, lastFrameUri, bestFrame,
                          recentPredictions>>
    /\ UNCHANGED <<camMounted, camFocused, ticks, nextFrame, predictions,
                   freshCapture, resultsImage>>
    /\ UNCHANGED cmpVars
    /\ UNCHANGED parseVars
    /\ UNCHANGED smVars
    /\ UNCHANGED anVars
    /\ tickLog' = IF camMounted /\ camFocused /\ session < MaxSessions
                  THEN <<>> ELSE tickLog

\* initialize() rejects: the alert (lines 1279-1286).
initializeModel_fail ==
    /\ modelInit = "loading"
    /\ modelInit' = "failed"
    /\ UNCHANGED <<camMounted, camFocused, isModelReady, isScanning,
                   isCapturing, isStable, scanIntervalRef, ticks, nextFrame,
                   session, lastFrameUri, bestFrame, recentPredictions,
                   predictions, freshCapture, resultsImage>>
    /\ UNCHANGED cmpVars
    /\ UNCHANGED parseVars
    /\ UNCHANGED smVars
    /\ UNCHANGED anVars
    /\ UNCHANGED tickLog

\* The screen loses focus (another tab, or a screen pushed over it): the
\* focus effect's cleanup calls stopScanning (lines 1313-1317, 1463-1470).
blur ==
    /\ camMounted /\ camFocused
    /\ camFocused' = FALSE
    /\ scanIntervalRef' = "null"
    /\ isScanning' = FALSE
    /\ UNCHANGED <<camMounted, modelInit, isModelReady, isCapturing, isStable,
                   ticks, nextFrame, session, lastFrameUri, bestFrame,
                   recentPredictions, predictions, freshCapture, resultsImage>>
    /\ UNCHANGED cmpVars
    /\ UNCHANGED parseVars
    /\ UNCHANGED smVars
    /\ UNCHANGED anVars
    /\ UNCHANGED tickLog

\* The screen regains focus: the focus effect's body (lines 1298-1311).  The
\* start effect that follows a change of isCapturing finds isScanning equal
\* to "an interval is set" and starts nothing more.
focus ==
    /\ camMounted /\ ~camFocused
    /\ session < MaxSessions
    /\ camFocused' = TRUE
    /\ session' = session + 1
    /\ isCapturing' = FALSE
    /\ isStable' = FALSE
    /\ bestFrame' = EmptyBestFrame
    /\ recentPredictions' = <<>>
    /\ lastFrameUri' = NoFrame
    /\ IF isModelReady /\ scanIntervalRef = "null"
         THEN /\ scanIntervalRef' = "interval"
              /\ isScanning' = TRUE
         ELSE UNCHANGED <<scanIntervalRef, isScanning>>
    /\ resultsImage' = NoFrame
    /\ UNCHANGED <<camMounted, modelInit, isModelReady, ticks, nextFrame,
                   predictions, freshCapture>>
    /\ UNCHANGED cmpVars
    /\ UNCHANGED parseVars
    /\ UNCHANGED smVars
    /\ UNCHANGED anVars
    /\ tickLog' = <<>>

\* The screen is removed: the cleanups of the init effect and of the focus
\* effect call stopScanning (lines 1291-1293, 1313-1317).
unmount ==
    /\ camMounted
    /\ camMounted' = FALSE
    /\ camFocused' = FALSE
    /\ scanIntervalRef' = "null"
    /\ isScanning' = FALSE
    /\ UNCHANGED <<modelInit, isModelReady, isCapturing, isStable, ticks,
                   nextFrame, session, lastFrameUri, bestFrame,
                   recentPredictions, predictions, freshCapture, resultsImage>>
    /\ UNCHANGED cmpVars
    /\ UNCHANGED parseVars
    /\ UNCHANGED smVars
    /\ UNCHANGED anVars
    /\ UNCHANGED tickLog

\* The interval fires (lines 1337-1350): the callback passes its guard and
\* suspends at takePictureAsync.  Every interval is created by a render
\* whose isModelReady is true and isPaused is never set, so the guard is
\* the camera ref alone.  Nothing holds back a callback while an earlier one
\* is still suspended.
tick_start ==
    /\ scanIntervalRef = "interval"
    /\ camMounted
    /\ nextFrame <= MaxFrames
    /\ Cardinality(ticks) < MaxInFlight
    /\ ticks' = ticks \cup
         {[frame |-> [uri |-> nextFrame, session |-> session],
           phase |-> "capture"]}
    /\ nextFrame' = nextFrame + 1
    /\ UNCHANGED <<camMounted, camFocused, modelInit, isModelReady,
                   isScanning, isCapturing, isStable, scanIntervalRef,
                   session, lastFrameUri, bestFrame, recentPredictions,
                   predictions, freshCapture, resultsImage>>
    /\ UNCHANGED cmpVars
    /\ UNCHANGED parseVars
    /\ UNCHANGED smVars
    /\ UNCHANGED anVars
    /\ UNCHANGED tickLog

\* takePictureAsync resolves (lines 1352-1359): the callback returns if the
\* interval ref is null, else stores the frame and suspends at quickPredict.
tick_captured ==
    /\ \E t \in ticks :
         /\ t.phase = "capture"
         /\ IF scanIntervalRef = "null"
              THEN /\ ticks' = ticks \ {t}
                   /\ UNCHANGED lastFrameUri
              ELSE /\ ticks' = (ticks \ {t}) \cup
                        {[frame |-> t.frame, phase |-> "infer"]}
                   /\ lastFrameUri' = t.frame
    /\ UNCHANGED <<camMounted, camFocused, modelInit, isModelReady,
                   isScanning, isCapturing, isStable, scanIntervalRef,
                   nextFrame, session, bestFrame, recentPredictions,
                   predictions, freshCapture, resultsImage>>
    /\ UNCHANGED cmpVars
    /\ UNCHANGED parseVars
    /\ UNCHANGED smVars
    /\ UNCHANGED anVars
    /\ UNCHANGED tickLog

\* takePictureAsync or quickPredict rejects: the catch (lines 1454-1456).
tick_failed ==
    /\ \E t \in ticks : ticks' = ticks \ {t}
    /\ UNCHANGED <<camMounted, camFocused, modelInit, isModelReady,
                   isScanning, isCapturing, isStable, scanIntervalRef,
                   nextFrame, session, lastFrameUri, bestFrame,
                   recentPredictions, predictions, freshCapture, resultsImage>>
    /\ UNCHANGED cmpVars
    /\ UNCHANGED parseVars
    /\ UNCHANGED smVars
    /\ UNCHANGED anVars
    /\ UNCHANGED tickLog

\* Whether the callback goes on after quickPredict has resolved (line 1359
\* to 1365: it does, whatever scanIntervalRef holds by then).
continuesAfterPredict(ref) == TRUE

\* quickPredict resolves (lines 1359-1452): history, stability, best frame,
\* displayed predictions.  A state setter of an unmounted screen does
\* nothing; the refs are written all the same.
tick_predicted ==
    /\ \E t \in ticks, currentLabel \in TickLabels,
          currentConfidence \in TickConfidences :
         /\ t.phase = "infer"
         /\ ticks' = ticks \ {t}
         /\ IF continuesAfterPredict(scanIntervalRef)
              THEN LET recent == pushRecent(recentPredictions,
                                     [label |-> currentLabel,
                                      confidence |-> currentConfidence,
                                      frame |-> t.frame])
                       stable == stableNow(recent, currentLabel)
                   IN  /\ recentPredictions' = recent
                       /\ bestFrame' = updateBestFrame(bestFrame, t.frame,
                                          currentLabel, currentConfidence,
                                          stable)
                       /\ IF camMounted
                            THEN /\ isStable' =
                                      stableFlag(stable, currentLabel)
                                 /\ predictions' =
                                      [label |-> currentLabel,
                                       confidence |-> currentConfidence]
                            ELSE UNCHANGED <<isStable, predictions>>
              ELSE UNCHANGED <<recentPredictions, bestFrame, isStable,
                               predictions>>
    /\ UNCHANGED <<camMounted, camFocused, modelInit, isModelReady,
                   isScanning, isCapturing, scanIntervalRef, nextFrame,
                   session, lastFrameUri, freshCapture, resultsImage>>
    /\ UNCHANGED cmpVars
    /\ UNCHANGED parseVars
    /\ UNCHANGED smVars
    /\ UNCHANGED anVars
    /\ UNCHANGED tickLog

\* The entry handleCapture's second rule picks (lines 1525-1527): the first
\* of the highest-confidence entries whose label is not 'Not Flower'.
bestRecent(recent) ==
    LET cand == {i \in DOMAIN recent : recent[i].label # "Not Flower"}
        top == {i \in cand :
                  \A j \in cand : recent[j].confidence <= recent[i].confidence}
    IN  IF cand = {} THEN [label |-> "null", confidence |-> 0, frame |-> NoFrame]
        ELSE recent[CHOOSE i \in top : \A j \in top : i <= j]

selectFrame_BestAtFifty(best, recent, last) ==
    IF best.frame # NoFrame /\ best.confidence >= 500 THEN best.frame
    ELSE IF bestRecent(recent).frame # NoFrame
              /\ bestRecent(recent).confidence > 600
         THEN bestRecent(recent).frame
    ELSE IF last # NoFrame THEN last
    ELSE NoFrame

\* The frame handleCapture selects (lines 1511-1542); NoFrame when a fresh
\* photo is needed.
selectFrame(best, recent, last) ==
    IF best.frame # NoFrame /\ best.confidence > 500 THEN best.frame
    ELSE IF bestRecent(recent).frame # NoFrame
              /\ bestRecent(recent).confidence > 600
         THEN bestRecent(recent).frame
    ELSE IF last # NoFrame THEN last
    ELSE NoFrame

\* Whether a press of the capture button runs handleCapture past its guard:
\* the button is disabled unless the model is ready and isCapturing is
\* false (line 1745), and handleCapture returns while isCapturing is true
\* (line 1500).
captureEnabled(ready, capturing) == ready /\ ~capturing

\* handleCapture up to its navigation or its await (lines 1499-1548,
\* 1572-1582).  The navigation takes the focus from the screen.  The model
\* follows one pending fresh photo at a time.
handleCapture ==
    /\ camMounted /\ camFocused
    /\ captureEnabled(isModelReady, isCapturing)
    /\ isCapturing' = TRUE
    /\ scanIntervalRef' = "null"
    /\ isScanning' = FALSE
    /\ LET imageUri == selectFrame(bestFrame, recentPredictions, lastFrameUri)
       IN  IF imageUri # NoFrame
             THEN /\ resultsImage' = imageUri
                  /\ camFocused' = FALSE
                  /\ UNCHANGED freshCapture
             ELSE /\ ~freshCapture
                  /\ freshCapture' = TRUE
                  /\ UNCHANGED <<resultsImage, camFocused>>
    /\ UNCHANGED <<camMounted, modelInit, isModelReady, isStable, ticks,
                   nextFrame, session, lastFrameUri, bestFrame,
                   recentPredictions, predictions>>
    /\ UNCHANGED cmpVars
    /\ UNCHANGED parseVars
    /\ UNCHANGED smVars
    /\ UNCHANGED anVars
    /\ UNCHANGED tickLog

\* handleCapture's own takePictureAsync resolves: navigation with the new
\* photo (lines 1548-1562).
handleCapture_photo ==
    /\ freshCapture
    /\ nextFrame <= MaxFrames
    /\ freshCapture' = FALSE
    /\ resultsImage' = [uri |-> nextFrame, session |-> session]
    /\ nextFrame' = nextFrame + 1
    /\ IF camFocused
         THEN /\ camFocused' = FALSE
              /\ scanIntervalRef' = "null"
              /\ isScanning' = FALSE
         ELSE UNCHANGED <<camFocused, scanIntervalRef, isScanning>>
    /\ UNCHANGED <<camMounted, modelInit, isModelReady, isCapturing, isStable,
                   ticks, session, lastFrameUri, bestFrame, recentPredictions,
                   predictions>>
    /\ UNCHANGED cmpVars
    /\ UNCHANGED parseVars
    /\ UNCHANGED smVars
    /\ UNCHANGED anVars
    /\ UNCHANGED tickLog

\* handleCapture's own takePictureAsync rejects: alert, isCapturing false,
\* startScanning (lines 1563-1568).
handleCapture_failed ==
    /\ freshCapture
    /\ freshCapture' = FALSE
    /\ isCapturing' = IF camMounted THEN FALSE ELSE isCapturing
    /\ scanIntervalRef' = "interval"
    /\ isScanning' = IF camMounted THEN TRUE ELSE isScanning
    /\ UNCHANGED <<camMounted, camFocused, modelInit, isModelReady, isStable,
                   ticks, nextFrame, session, lastFrameUri, bestFrame,
                   recentPredictions, predictions, resultsImage>>
    /\ UNCHANGED cmpVars
    /\ UNCHANGED parseVars
    /\ UNCHANGED smVars
    /\ UNCHANGED anVars
    /\ UNCHANGED tickLog

NextScan ==
    \/ initializeModel_done
    \/ initializeModel_fail
    \/ blur
    \/ focus
    \/ unmount
    \/ tick_start
    \/ tick_captured
    \/ tick_failed
    \/ tick_predicted
    \/ handleCapture
    \/ handleCapture_photo
    \/ handleCapture_failed

SpecScan == InitScan /\ [][NextScan]_vars

(***************************************************************************)
(* SpecTrack: the tracking state of a running scan session drawn from a    *)
(* bounded set of states the loop reaches, then whole ticks (capture and   *)
(* prediction without overlap) and a capture.                              *)
(***************************************************************************)
\* Photos the camera takes after the drawn history in one run.
MaxTrackTicks == 1

TrackLabels == {"Patola Male", "Upo Smooth Female", "Not Flower"}

\* Confidences of a top prediction in tenths of a percent; a top prediction
\* has at least 50%, since below it the synthesized 'Not Flower' entry
\* comes first (modelServiceTM.js:252-268).
TrackConfidences == {500, 550, 900}

\* The frame of the k-th tick of the session.
trackFrame(k) == [uri |-> k, session |-> 1]

\* i entries of one prediction followed by j entries of another, the k-th
\* entry holding the frame of the k-th tick after `shifted` earlier ones.
twoRuns(x, i, y, j, shifted) ==
    [k \in 1..(i + j) |->
        [label |-> IF k <= i THEN x.label ELSE y.label,
         confidence |-> IF k <= i THEN x.confidence ELSE y.confidence,
         frame |-> trackFrame(k + shifted)]]

TrackEntries == [label : TrackLabels, confidence : TrackConfidences]

\* Histories of a session: shorter than the buffer and nothing shifted out
\* yet, or a full buffer after the first StableCount entries were shifted
\* out.
TrackHistories ==
    {twoRuns(x, i, y, j, IF i + j = RecentSize THEN StableCount ELSE 0) :
        x \in TrackEntries, y \in TrackEntries,
        i \in 0..RecentSize, j \in 0..RecentSize}

\* The tick that pushed entry m found the history stable on a flower label.
stableAt(h, m) ==
    /\ m >= StableCount
    /\ h[m].label # "Not Flower"
    /\ \A k \in (m - StableCount + 1)..m : h[k].label = h[m].label

\* The best frames history h can have left behind: none if no tick was
\* stable, else the frame of the stable tick with the highest confidence,
\* the earliest of them.
bestFrameOf(h) ==
    LET stableTicks == {m \in DOMAIN h : stableAt(h, m)}
        top == {m \in stableTicks :
                  \A n \in stableTicks : h[n].confidence <= h[m].confidence}
    IN  IF stableTicks = {} THEN EmptyBestFrame
        ELSE LET m == CHOOSE m \in top : \A n \in top : m <= n
             IN  [frame |-> h[m].frame, label |-> h[m].label,
                  confidence |-> h[m].confidence]

\* The best frames a session with history h can hold: the one its history
\* left behind, or, the first StableCount ticks having carried one flower
\* label and been shifted out, the frame of the last of them, if no later
\* tick exceeded its confidence.
bestFramesOf(h) ==
    {bestFrameOf(h)} \cup
    {[frame |-> trackFrame(StableCount), label |-> l, confidence |-> c] :
        l \in {x \in TrackLabels :
                 x # "Not Flower" /\ Len(h) = RecentSize},
        c \in {x \in TrackConfidences :
                 \A k \in DOMAIN h :
                    h[k].label = "Not Flower" \/ h[k].confidence <= x}}

\* A scanning session after the ticks that left history h; the ticks of
\* the run take the frames after those the history can hold.
InitTrack ==
    /\ \E h \in TrackHistories :
         /\ Len(h) <= RecentSize
         /\ recentPredictions = h
         /\ bestFrame \in bestFramesOf(h)
         /\ lastFrameUri \in
               IF h = <<>> THEN {NoFrame, trackFrame(1)}
                           ELSE {h[Len(h)].frame}
         /\ isStable = (h # <<>> /\ stableAt(h, Len(h)))
         /\ predictions = IF h = <<>> THEN NoPredictions
                          ELSE [label |-> h[Len(h)].label,
                                confidence |-> h[Len(h)].confidence]
         /\ nextFrame = RecentSize + StableCount + 1
    /\ camMounted = TRUE
    /\ camFocused = TRUE
    /\ modelInit = "done"
    /\ isModelReady = TRUE
    /\ isScanning = TRUE
    /\ isCapturing = FALSE
    /\ scanIntervalRef = "interval"
    /\ ticks = {}
    /\ session = 1
    /\ freshCapture = FALSE
    /\ resultsImage = NoFrame
    /\ tickLog = <<>>
    /\ cmpLocal = NoPrediction
    /\ cmpRemote = NoPrediction
    /\ cmpResult = NoResult
    /\ AnalysisIdle
    /\ SmoothIdle
    /\ ParseIdle

\* One whole interval callback that meets no failure and no other event
\* between its awaits (lines 1337-1452): the photo is taken and stored, the
\* prediction is pushed, stability and best frame are updated.
scanTick ==
    /\ scanIntervalRef = "interval"
    /\ camMounted
    /\ ticks = {}
    /\ nextFrame <= RecentSize + StableCount + MaxTrackTicks
    /\ \E currentLabel \in TrackLabels, currentConfidence \in TrackConfidences :
         LET frame == trackFrame(nextFrame)
             recent == pushRecent(recentPredictions,
                          [label |-> currentLabel,
                           confidence |-> currentConfidence,
                           frame |-> frame])
             stable == stableNow(recent, currentLabel)
         IN  /\ lastFrameUri' = frame
             /\ recentPredictions' = recent
             /\ bestFrame' = updateBestFrame(bestFrame, frame, currentLabel,
                                             currentConfidence, stable)
             /\ isStable' = stableFlag(stable, currentLabel)
             /\ predictions' = [label |-> currentLabel,
                                confidence |-> currentConfidence]
    /\ nextFrame' = nextFrame + 1
    /\ UNCHANGED <<camMounted, camFocused, modelInit, isModelReady,
                   isScanning, isCapturing, scanIntervalRef, ticks, session,
                   freshCapture, resultsImage>>
    /\ UNCHANGED cmpVars
    /\ UNCHANGED parseVars
    /\ UNCHANGED smVars
    /\ UNCHANGED anVars
    /\ UNCHANGED tickLog

NextTrack ==
    \/ scanTick
    \/ handleCapture

SpecTrack == InitTrack /\ [][NextTrack]_vars

(***************************************************************************)
(* SpecLocal: the local pipeline of one visit of the camera screen - whole *)
(* interval callbacks whose quickPredict goes through the smoothing window *)
(* of the shared modelServiceTM, failures of a callback, capture, and the  *)
(* local step of ResultsScreenTM.runAnalysis on the frame handed over.     *)
(***************************************************************************)
\* Interval callbacks in one run.
MaxLocalTicks == 6

\* Interval callbacks that throw between two resets of the refs.
MaxTickFailures == 1

\* Output tensors the model yields for the frames of a run: 'Patola Male'
\* at 0.90, 'Patola Male' at 0.60, and two labels tied at 0.40.
LocalRaws ==
    { <<2, 2, 2, 90, 2, 2>>, <<8, 8, 8, 60, 8, 8>>, <<40, 40, 5, 5, 5, 5>> }

\* percentage of an entry (lines 238-243, 261) in tenths of a percent:
\* Math.round(probability * 100 * 10).
percentage(entry, n) == (2 * 1000 * entry.num + n * Unit) \div (2 * n * Unit)

\* probability of an entry in thousandths, rounded down.
probability(entry, n) == (1000 * entry.num) \div (n * Unit)

\* The words of a label of the service.
wordsOf(label) ==
    CASE label = "Ampalaya Bilog Male"   -> <<"Ampalaya", "Bilog", "Male">>
      [] label = "Ampalaya Bilog Female" -> <<"Ampalaya", "Bilog", "Female">>
      [] label = "Patola Female"         -> <<"Patola", "Female">>
      [] label = "Patola Male"           -> <<"Patola", "Male">>
      [] label = "Upo Smooth Female"     -> <<"Upo", "Smooth", "Female">>
      [] label = "Upo Smooth Male"       -> <<"Upo", "Smooth", "Male">>
      [] label = "Not Flower"            -> NotFlowerLabel

\* The callbacks of tickLog that threw.
failedTicks == {k \in DOMAIN tickLog : tickLog[k].outcome # "ok"}

\* The output tensors the model can yield for a frame: the one it yielded
\* when a tick ran it on the frame, any for a frame it has not seen.
outputsFor(frame) ==
    LET seen == {k \in DOMAIN tickLog :
                    tickLog[k].outcome = "ok" /\ tickLog[k].frame = frame}
    IN  IF seen = {} THEN LocalRaws ELSE {tickLog[k].raw : k \in seen}

\* The camera screen scanning with a ready model, after the reset of the
\* focus effect and before the first interval callback.
InitLocal ==
    /\ camMounted = TRUE
    /\ camFocused = TRUE
    /\ modelInit = "done"
    /\ isModelReady = TRUE
    /\ isScanning = TRUE
    /\ isCapturing = FALSE
    /\ isStable = FALSE
    /\ scanIntervalRef = "interval"
    /\ ticks = {}
    /\ nextFrame = 1
    /\ session = 1
    /\ lastFrameUri = NoFrame
    /\ bestFrame = EmptyBestFrame
    /\ recentPredictions = <<>>
    /\ predictions = NoPredictions
    /\ freshCapture = FALSE
    /\ resultsImage = NoFrame
    /\ tickLog = <<>>
    /\ cmpLocal = NoPrediction
    /\ cmpRemote = NoPrediction
    /\ cmpResult = NoResult
    /\ AnalysisIdle
    /\ SmoothIdle
    /\ ParseIdle

\* One whole interval callback that meets no failure (ResultsScreenTM.js:
\* 1337-1452): the photo is taken and stored, quickPredict pushes the
\* output tensor to the smoothing window and returns the smoothed
\* distribution (modelServiceTM.js:201-278), its top entry is pushed to the
\* history, stability and best frame are updated.
localTick ==
    /\ scanIntervalRef = "interval"
    /\ camMounted
    /\ isReady
    /\ nextFrame <= MaxLocalTicks
    /\ \E raw \in LocalRaws :
         /\ predictionHistory' = pushHistory(predictionHistory, raw)
         /\ observed' = Append(observed, raw)
         /\ smoothed' = smooth(predictionHistory')
    /\ lastFrameUri' = [uri |-> nextFrame, session |-> session]
    /\ predictions' =
          [label |-> smoothed'.predictions[1].label,
           confidence |-> percentage(smoothed'.predictions[1], smoothed'.n)]
    /\ recentPredictions' =
          pushRecent(recentPredictions,
                     [label |-> predictions'.label,
                      confidence |-> predictions'.confidence,
                      frame |-> lastFrameUri'])
    /\ isStable' = stableFlag(stableNow(recentPredictions', predictions'.label),
                              predictions'.label)
    /\ bestFrame' = updateBestFrame(bestFrame, lastFrameUri',
                                    predictions'.label,
                                    predictions'.confidence,
                                    stableNow(recentPredictions',
                                              predictions'.label))
    /\ tickLog' = Append(tickLog,
                     [outcome |-> "ok", frame |-> lastFrameUri',
                      raw |-> observed'[Len(observed')],
                      label |-> predictions'.label,
                      confidence |-> predictions'.confidence,
                      stable |-> isStable'])
    /\ nextFrame' = nextFrame + 1
    /\ UNCHANGED <<camMounted, camFocused, modelInit, isModelReady,
                   isScanning, isCapturing, scanIntervalRef, ticks, session,
                   freshCapture, resultsImage>>
    /\ UNCHANGED <<isReady, modelType, isInitializing, model, initCalls>>
    /\ UNCHANGED cmpVars
    /\ UNCHANGED parseVars
    /\ UNCHANGED anVars

\* An interval callback whose takePictureAsync throws: the catch logs the
\* error (ResultsScreenTM.js:1343-1350, 1454-1456).
localTick_captureFails ==
    /\ scanIntervalRef = "interval"
    /\ camMounted
    /\ nextFrame <= MaxLocalTicks
    /\ Cardinality(failedTicks) < MaxTickFailures
    /\ tickLog' = Append(tickLog,
                     [outcome |-> "captureFailed", frame |-> NoFrame,
                      raw |-> <<>>, label |-> "null", confidence |-> 0,
                      stable |-> FALSE])
    /\ nextFrame' = nextFrame + 1
    /\ UNCHANGED <<camMounted, camFocused, modelInit, isModelReady,
                   isScanning, isCapturing, isStable, scanIntervalRef, ticks,
                   session, lastFrameUri, bestFrame, recentPredictions,
                   predictions, freshCapture, resultsImage>>
    /\ UNCHANGED cmpVars
    /\ UNCHANGED parseVars
    /\ UNCHANGED smVars
    /\ UNCHANGED anVars

localTick_predictFails_AfterPush ==
    /\ scanIntervalRef = "interval"
    /\ camMounted
    /\ nextFrame <= MaxLocalTicks
    /\ Cardinality(failedTicks) < MaxTickFailures
    /\ lastFrameUri' = [uri |-> nextFrame, session |-> session]
    /\ tickLog' = Append(tickLog,
                     [outcome |-> "predictFailed",
                      frame |-> [uri |-> nextFrame, session |-> session],
                      raw |-> <<>>, label |-> "null", confidence |-> 0,
                      stable |-> FALSE])
    /\ nextFrame' = nextFrame + 1
    /\ \E raw \in LocalRaws :
         /\ predictionHistory' = pushHistory(predictionHistory, raw)
         /\ observed' = Append(observed, raw)
    /\ UNCHANGED <<camMounted, camFocused, modelInit, isModelReady,
                   isScanning, isCapturing, isStable, scanIntervalRef, ticks,
                   session, bestFrame, recentPredictions, predictions,
                   freshCapture, resultsImage>>
    /\ UNCHANGED <<isReady, modelType, smoothed, isInitializing, model,
                   initCalls>>
    /\ UNCHANGED cmpVars
    /\ UNCHANGED parseVars
    /\ UNCHANGED anVars

\* An interval callback whose quickPredict throws: the photo was stored
\* (ResultsScreenTM.js:1356); predictWithAllProbabilities throws from its
\* readiness test, its preprocessing or the model run, all before the
\* output is pushed (modelServiceTM.js:190-215, 280-283); the catch logs
\* the error.
localTick_predictFails ==
    /\ scanIntervalRef = "interval"
    /\ camMounted
    /\ nextFrame <= MaxLocalTicks
    /\ Cardinality(failedTicks) < MaxTickFailures
    /\ lastFrameUri' = [uri |-> nextFrame, session |-> session]
    /\ tickLog' = Append(tickLog,
                     [outcome |-> "predictFailed",
                      frame |-> [uri |-> nextFrame, session |-> session],
                      raw |-> <<>>, label |-> "null", confidence |-> 0,
                      stable |-> FALSE])
    /\ nextFrame' = nextFrame + 1
    /\ UNCHANGED <<camMounted, camFocused, modelInit, isModelReady,
                   isScanning, isCapturing, isStable, scanIntervalRef, ticks,
                   session, bestFrame, recentPredictions, predictions,
                   freshCapture, resultsImage>>
    /\ UNCHANGED cmpVars
    /\ UNCHANGED parseVars
    /\ UNCHANGED smVars
    /\ UNCHANGED anVars

\* ResultsScreenTM mounted with the frame handed over: runAnalysis up to
\* setTmPrediction (ResultsScreenTM.js:358-372, 390-425).  quickPredict
\* pushes the frame's output tensor to the smoothing window of the same
\* modelServiceTM the scanning loop used.
runAnalysis_local ==
    /\ resultsImage # NoFrame
    /\ ~camFocused
    /\ anScreen = "ResultsTM"
    /\ anPc = "idle"
    /\ isReady
    /\ \E raw \in outputsFor(resultsImage) :
         /\ predictionHistory' = pushHistory(predictionHistory, raw)
         /\ observed' = Append(observed, raw)
         /\ smoothed' = smooth(predictionHistory')
    /\ tmPrediction' =
          tmPredOf(wordsOf(smoothed'.predictions[1].label),
                   probability(smoothed'.predictions[1], smoothed'.n))
    /\ anPc' = "tmDone"
    /\ UNCHANGED <<anScreen, geminiPrediction, comparisonResult, prediction,
                   validationStatus, showPredictionConflict, analysisError>>
    /\ UNCHANGED gemVars
    /\ UNCHANGED <<anGone, capturedImage>>
    /\ UNCHANGED <<isReady, modelType, isInitializing, model, initCalls>>
    /\ UNCHANGED cmpVars
    /\ UNCHANGED parseVars
    /\ UNCHANGED scanVars

NextLocal ==
    \/ localTick
    \/ localTick_captureFails
    \/ localTick_predictFails
    \/ handleCapture
    \/ handleCapture_photo
    \/ handleCapture_failed
    \/ runAnalysis_local

SpecLocal == InitLocal /\ [][NextLocal]_vars

(***************************************************************************)
(* SpecSmooth: calls of predictWithAllProbabilities and model switches.    *)
(***************************************************************************)
InitSmooth ==
    /\ SmoothIdle
    /\ ParseIdle
    /\ cmpLocal = NoPrediction
    /\ cmpRemote = NoPrediction
    /\ cmpResult = NoResult
    /\ AnalysisIdle
    /\ ScanIdle

\* predictWithAllProbabilities (lines 189-278): it throws unless the
\* service is ready; the part after the last await, from the output
\* tensor on, runs without interruption.
predictWithAllProbabilities ==
    /\ isReady
    /\ Len(observed) < MaxObserved
    /\ \E raw \in RawOutputs :
         /\ predictionHistory' = pushHistory(predictionHistory, raw)
         /\ observed' = Append(observed, raw)
         /\ smoothed' = smooth(pushHistory(predictionHistory, raw))
    /\ UNCHANGED <<isReady, modelType, isInitializing, model, initCalls>>
    /\ UNCHANGED cmpVars
    /\ UNCHANGED parseVars
    /\ UNCHANGED anVars
    /\ UNCHANGED scanVars

\* initialize(type) (lines 41-78): nothing when the service is ready with
\* that type; else the type is set, the history emptied, and the service
\* is ready or not as the model load succeeds or fails.
initializeTM ==
    /\ \E type \in ModelTypes, loaded \in BOOLEAN :
         IF isReady /\ modelType = type
           THEN UNCHANGED <<isReady, modelType, predictionHistory, observed,
                            model>>
           ELSE /\ modelType' = type
                /\ predictionHistory' = <<>>
                /\ observed' = <<>>
                /\ isReady' = loaded
                /\ model' = IF loaded THEN type ELSE model
    /\ UNCHANGED <<smoothed, isInitializing, initCalls>>
    /\ UNCHANGED cmpVars
    /\ UNCHANGED parseVars
    /\ UNCHANGED anVars
    /\ UNCHANGED scanVars

NextSmooth ==
    \/ predictWithAllProbabilities
    \/ initializeTM

SpecSmooth == InitSmooth /\ [][NextSmooth]_vars

(***************************************************************************)
(* SpecInit: calls of ModelServiceTM.initialize that overlap               *)
(* (modelServiceTM.js:41-105).  A call stands at one of its awaits         *)
(* ("loading" at line 64, "waiting" in the loop of lines 50-52) or has     *)
(* ended ("true", "false", "thrown").                                      *)
(***************************************************************************)
\* Calls of initialize in one run.
MaxInitCalls == 3

\* The calls that await loadModel.
loadsInProgress == {c \in DOMAIN initCalls : initCalls[c].pc = "loading"}

\* The service as constructed (lines 24-35), or ready with either model.
InitInit ==
    /\ \E ready \in BOOLEAN, type \in ModelTypes :
         /\ isReady = ready
         /\ modelType = IF ready THEN type ELSE "float"
         /\ model = IF ready THEN type ELSE "null"
    /\ isInitializing = FALSE
    /\ initCalls = <<>>
    /\ predictionHistory = <<>>
    /\ observed = <<>>
    /\ smoothed = NoSmoothed
    /\ ParseIdle
    /\ cmpLocal = NoPrediction
    /\ cmpRemote = NoPrediction
    /\ cmpResult = NoResult
    /\ AnalysisIdle
    /\ ScanIdle

\* initialize(type) up to its first await or return (lines 41-64): true at
\* once if ready with the type; the waiting loop if a call is loading;
\* else the call takes the flag, sets the type, empties the window and
\* starts loadModel.
initialize_call ==
    /\ Len(initCalls) < MaxInitCalls
    /\ \E type \in ModelTypes :
         IF isReady /\ modelType = type
           THEN /\ initCalls' = Append(initCalls, [type |-> type, pc |-> "true"])
                /\ UNCHANGED <<isInitializing, modelType, predictionHistory,
                               observed>>
         ELSE IF isInitializing
           THEN /\ initCalls' = Append(initCalls,
                                       [type |-> type, pc |-> "waiting"])
                /\ UNCHANGED <<isInitializing, modelType, predictionHistory,
                               observed>>
         ELSE /\ initCalls' = Append(initCalls,
                                     [type |-> type, pc |-> "loading"])
              /\ isInitializing' = TRUE
              /\ modelType' = type
              /\ predictionHistory' = <<>>
              /\ observed' = <<>>
    /\ UNCHANGED <<isReady, model, smoothed>>
    /\ UNCHANGED cmpVars
    /\ UNCHANGED parseVars
    /\ UNCHANGED anVars
    /\ UNCHANGED scanVars

\* loadModel resolves (lines 64-71, 94): the model is stored, the service
\* is ready, the flag is dropped and the call returns true.
initialize_loaded ==
    /\ \E c \in loadsInProgress :
         /\ model' = initCalls[c].type
         /\ initCalls' = [initCalls EXCEPT ![c].pc = "true"]
    /\ isReady' = TRUE
    /\ isInitializing' = FALSE
    /\ UNCHANGED <<modelType, predictionHistory, observed, smoothed>>
    /\ UNCHANGED cmpVars
    /\ UNCHANGED parseVars
    /\ UNCHANGED anVars
    /\ UNCHANGED scanVars

\* loadModel rejects (lines 72-77, 101-104): this.model is not assigned,
\* the flag is dropped, the service is not ready and the call throws.
initialize_loadFails ==
    /\ \E c \in loadsInProgress :
         initCalls' = [initCalls EXCEPT ![c].pc = "thrown"]
    /\ isReady' = FALSE
    /\ isInitializing' = FALSE
    /\ UNCHANGED <<model, modelType, predictionHistory, observed, smoothed>>
    /\ UNCHANGED cmpVars
    /\ UNCHANGED parseVars
    /\ UNCHANGED anVars
    /\ UNCHANGED scanVars

\* A waiting call's timer fires with the flag dropped (lines 50-53): the
\* call returns this.isReady.
initialize_waited ==
    /\ ~isInitializing
    /\ \E c \in DOMAIN initCalls :
         /\ initCalls[c].pc = "waiting"
         /\ initCalls' = [initCalls EXCEPT
                            ![c].pc = IF isReady THEN "true" ELSE "false"]
    /\ UNCHANGED <<isReady, modelType, predictionHistory, observed, smoothed,
                   isInitializing, model>>
    /\ UNCHANGED cmpVars
    /\ UNCHANGED parseVars
    /\ UNCHANGED anVars
    /\ UNCHANGED scanVars

NextInit ==
    \/ initialize_call
    \/ initialize_loaded
    \/ initialize_loadFails
    \/ initialize_waited

SpecInit == InitInit /\ [][NextInit]_vars

(***************************************************************************)
(* SpecParse: GeminiService.analyzeFlower from the response text on        *)
(* (geminiService.js:510-578) and formatPrediction's confidence flags      *)
(* (lines 603-630).  A response text is represented by what the parsing    *)
(* reads of it: whether /\{[\s\S]*\}/ matches, whether JSON.parse accepts  *)
(* the match, the three fields of the parsed object, and the captures of   *)
(* the three field patterns.                                               *)
(***************************************************************************)
\* Confidences in thousandths, on both sides of 0.5 and of 0.65.
ParseConfidences == {499, 500, 649, 650, 900}

\* Top-level fields of the object JSON.parse returns; "undefined" for a
\* missing or empty variety or gender, -1 for a missing confidence.
ParsedObjects ==
    [variety : {"patola", "not_flower", "undefined"},
     gender : {"male", "undefined"},
     confidence : ParseConfidences \cup {-1}]

\* Captures of the patterns for "variety", "gender" and "confidence"
\* (lines 525-527, 546-548); "null" and -1 where the pattern does not match.
ExtractedFields ==
    [variety : {"patola", "not_flower", "null"},
     gender : {"male", "null"},
     confidence : {499, 900, -1}]

\* Response texts; without a brace pair nothing is parsed.
Responses ==
    {t \in [braces : BOOLEAN, valid : BOOLEAN, parsed : ParsedObjects,
            extracted : ExtractedFields] :
        /\ (~t.braces => ~t.valid)
        /\ (~t.valid => t.parsed = NoText.parsed)}

\* varietyMatch && genderMatch && confidenceMatch (lines 529, 550).
allMatch(extracted) ==
    /\ extracted.variety # "null"
    /\ extracted.gender # "null"
    /\ extracted.confidence # -1

\* The validation of lines 565-567 passes.
isComplete(geminiResult) ==
    /\ geminiResult.variety # "undefined"
    /\ geminiResult.gender # "undefined"
    /\ geminiResult.confidence # -1

\* The object built from the captures (lines 530-536, 551-557).
fromMatches(extracted) ==
    [variety |-> extracted.variety, gender |-> extracted.gender,
     confidence |-> extracted.confidence]

\* isLowConfidence, isUncertain, shouldReject (lines 603, 627-630).
confidenceFlags_RejectLow(geminiResult) ==
    LET notFlower == geminiResult.variety = "not_flower"
        low == geminiResult.confidence < 650
        uncertain == geminiResult.confidence < 500
    IN  [isLowConfidence |-> low,
         isUncertain |-> uncertain,
         shouldReject |-> notFlower \/ low]

confidenceFlags(geminiResult) ==
    LET notFlower == geminiResult.variety = "not_flower"
        low == geminiResult.confidence < 650
        uncertain == geminiResult.confidence < 500
    IN  [isLowConfidence |-> low,
         isUncertain |-> uncertain,
         shouldReject |-> notFlower \/ uncertain]

\* What analyzeFlower returns or throws for a response text (lines
\* 517-578).  The match of the brace pattern is parsed; the captures are
\* used when there is no match or JSON.parse throws; an object that was
\* parsed is validated as it is.
parseResponse(t) ==
    IF t.braces /\ t.valid
      THEN IF isComplete(t.parsed)
             THEN [error |-> "none", geminiResult |-> t.parsed]
             ELSE [error |-> "Incomplete response from Gemini",
                   geminiResult |-> t.parsed]
      ELSE IF allMatch(t.extracted)
             THEN [error |-> "none", geminiResult |-> fromMatches(t.extracted)]
             ELSE [error |-> "Invalid response format from Gemini",
                   geminiResult |-> NoText.parsed]

InitParse ==
    /\ text \in Responses
    /\ analyzeFlowerResult = NotCalled
    /\ cmpLocal = NoPrediction
    /\ cmpRemote = NoPrediction
    /\ cmpResult = NoResult
    /\ AnalysisIdle
    /\ ScanIdle
    /\ SmoothIdle

\* analyzeFlower once the response has arrived (lines 510-578).
analyzeFlower ==
    /\ analyzeFlowerResult = NotCalled
    /\ LET r == parseResponse(text)
       IN  analyzeFlowerResult' =
             IF r.error = "none"
               THEN [error |-> "none",
                     prediction |-> formatPrediction(r.geminiResult),
                     flags |-> confidenceFlags(r.geminiResult)]
               ELSE [error |-> r.error, prediction |-> NoPrediction,
                     flags |-> NoFlags]
    /\ UNCHANGED text
    /\ UNCHANGED cmpVars
    /\ UNCHANGED anVars
    /\ UNCHANGED scanVars
    /\ UNCHANGED smVars

NextParse == analyzeFlower

SpecParse == InitParse /\ [][NextParse]_vars

(***************************************************************************)
(* SpecCmp: every pair of predictions is handed to comparePredictions.     *)
(***************************************************************************)
InitCmp ==
    /\ cmpLocal \in Predictions
    /\ cmpRemote \in Predictions
    /\ cmpResult = NoResult
    /\ AnalysisIdle
    /\ SmoothIdle
    /\ ParseIdle
    /\ ScanIdle

\* A service whose comparison keeps the outcome of its first call.
Compare_Remembering ==
    /\ cmpResult' = IF cmpResult = NoResult
                        THEN comparePredictions(cmpLocal, cmpRemote)
                        ELSE [cmpResult EXCEPT !.recommendation = "manual"]
    /\ UNCHANGED <<cmpLocal, cmpRemote>>
    /\ UNCHANGED anVars
    /\ UNCHANGED scanVars
    /\ UNCHANGED smVars
    /\ UNCHANGED parseVars

\* One call of geminiService.comparePredictions (lines 721-786); the method
\* can be called any number of times on the same pair.
Compare ==
    /\ cmpResult' = comparePredictions(cmpLocal, cmpRemote)
    /\ UNCHANGED <<cmpLocal, cmpRemote>>
    /\ UNCHANGED anVars
    /\ UNCHANGED scanVars
    /\ UNCHANGED smVars
    /\ UNCHANGED parseVars

NextCmp == Compare

SpecCmp == InitCmp /\ [][NextCmp]_vars

(***************************************************************************)
(* Properties of comparePredictions (checked under SpecCmp).               *)
(***************************************************************************)
Compared == cmpResult # NoResult

\* The cases of the decision table, stated on the arguments.
SpeciesCase == cmpLocal.variety = "Upo (Smooth)" /\ cmpRemote.variety = "Ampalaya Bilog"

FemaleCase == cmpLocal.gender = "female" /\ cmpRemote.gender = "male"

AgreeCase == cmpLocal.variety = cmpRemote.variety /\ cmpLocal.gender = cmpRemote.gender

L == cmpLocal.rawScore

R == cmpRemote.rawScore

C2_Original ==
    (Compared /\ SpeciesCase /\ L >= 800) => cmpResult.recommendation = "tflite"

\* C2 (amended): under the species pairing a local rawScore strictly above
\* 0.80 (0.80 itself excluded) yields 'tflite' whatever the genders and the
\* remote rawScore are.
C2_SpeciesGuard ==
    (Compared /\ SpeciesCase /\ L > 800) => cmpResult.recommendation = "tflite"

C2_Witness ==
    /\ Compared /\ SpeciesCase /\ FemaleCase
    /\ L = 810 /\ R = 1000
    /\ cmpResult.recommendation = "tflite"

\* The rules as rows <<condition, recommendation>>, read first match wins.
RECURSIVE FirstMatch(_, _)
FirstMatch(rows, i) ==
    IF i > Len(rows) THEN "manual"
    ELSE IF rows[i][1] THEN rows[i][2]
    ELSE FirstMatch(rows, i + 1)

ScoreRows ==
    << <<L >= 980, "tflite">>,
       <<R >= 950 /\ L < 700, "gemini">>,
       <<L >= 900 /\ R < 900, "tflite">>,
       <<R >= 900 /\ L < 800, "gemini">> >>

\* Every rule a row of its complete condition; a row that does not hold is
\* skipped and the rows below it decide.
CompleteConditionRows ==
    << <<SpeciesCase /\ L > 800, "tflite">>,
       <<FemaleCase /\ R < 980 /\ L > 650, "tflite">>,
       <<FemaleCase /\ R >= 980, "gemini">> >> \o ScoreRows

\* A label pairing that applies closes the table: the row after its
\* confidence rows holds whenever the pairing does and gives 'manual'.
PairingClosesRows ==
    << <<SpeciesCase /\ L > 800, "tflite">>,
       <<SpeciesCase, "manual">>,
       <<FemaleCase /\ R < 980 /\ L > 650, "tflite">>,
       <<FemaleCase /\ R >= 980, "gemini">>,
       <<FemaleCase, "manual">> >> \o ScoreRows

\* C3 (as written): the recommendation of a disagreeing pair is that of the
\* first rule whose complete condition (pairing and thresholds together)
\* holds; a guard whose pairing applies but whose thresholds do not hold is
\* no match and the later rules decide.
C3_Original ==
    (Compared /\ ~AgreeCase)
        => cmpResult.recommendation = FirstMatch(CompleteConditionRows, 1)

\* C3 (amended): the rules are evaluated top to bottom, but a guard is
\* selected by its label pairing alone: when the species pairing applies, or
\* else the local-female/remote-male pairing, that guard decides by its
\* confidence condition and gives 'manual' when the condition does not hold,
\* and no later rule is evaluated; rules c-f are evaluated, first match wins,
\* only when neither pairing applies.
C3_RuleOrder ==
    (Compared /\ ~AgreeCase)
        => cmpResult.recommendation = FirstMatch(PairingClosesRows, 1)

\* A species pairing whose threshold fails while rule d would match.
C3_Witness ==
    /\ Compared /\ SpeciesCase /\ ~FemaleCase
    /\ L = 600 /\ R = 980
    /\ cmpResult.recommendation = "manual"

\* C4: when neither pairing applies to a disagreeing pair, the recommendation
\* is: local >= 0.98 -> 'tflite'; else remote >= 0.95 and local < 0.70 ->
\* 'gemini'; else local >= 0.90 and remote < 0.90 -> 'tflite'; else remote >=
\* 0.90 and local < 0.80 -> 'gemini'; otherwise 'manual'.
C4_ConfidenceRules ==
    (Compared /\ ~AgreeCase /\ ~SpeciesCase /\ ~FemaleCase)
        => LET c == L >= 980
               d == R >= 950 /\ L < 700
               e == L >= 900 /\ R < 900
               f == R >= 900 /\ L < 800
               rec == cmpResult.recommendation
           IN  /\ c => rec = "tflite"
               /\ (~c /\ d) => rec = "gemini"
               /\ (~c /\ ~d /\ e) => rec = "tflite"
               /\ (~c /\ ~d /\ ~e /\ f) => rec = "gemini"
               /\ (~c /\ ~d /\ ~e /\ ~f) => rec = "manual"

\* Rule c at its threshold, with a remote score that matches no other rule.
C4_Witness ==
    /\ Compared /\ ~AgreeCase /\ ~SpeciesCase /\ ~FemaleCase
    /\ L = 980 /\ R = 1000
    /\ cmpResult.recommendation = "tflite"

\* C5: for an agreeing pair the recommendation is the side with the higher
\* rawScore, an exact tie goes to 'gemini', and 'manual' is never returned.
C5_Agreement ==
    (Compared /\ AgreeCase)
        => /\ (R > L) => cmpResult.recommendation = "gemini"
           /\ (L > R) => cmpResult.recommendation = "tflite"
           /\ (L = R) => cmpResult.recommendation = "gemini"
           /\ cmpResult.recommendation # "manual"

C5_Witness ==
    /\ Compared /\ AgreeCase
    /\ L = R
    /\ cmpResult.recommendation = "gemini"

\* C6: varietyMatch and genderMatch are the two equalities, agree is their
\* conjunction, confidenceGap is |local - remote|, and confidence is the
\* larger rawScore when agree holds and the arithmetic mean otherwise.
C6_ResultFields ==
    Compared
        => /\ cmpResult.varietyMatch = (cmpLocal.variety = cmpRemote.variety)
           /\ cmpResult.genderMatch = (cmpLocal.gender = cmpRemote.gender)
           /\ cmpResult.agree = (cmpResult.varietyMatch /\ cmpResult.genderMatch)
           /\ cmpResult.confidenceGap >= 0
           /\ cmpResult.confidenceGap \in {L - R, R - L}
           /\ cmpResult.agree
                => /\ cmpResult.confidence \in {L, R}
                   /\ cmpResult.confidence >= L
                   /\ cmpResult.confidence >= R
           /\ ~cmpResult.agree => 2 * cmpResult.confidence = L + R

C6_Witness ==
    /\ Compared /\ cmpResult.agree
    /\ L = 800 /\ R = 900
    /\ cmpResult.confidence = 900
    /\ cmpResult.confidenceGap = 100

(***************************************************************************)
(* Properties of the analysis session (checked under SpecAnalysis).        *)
(***************************************************************************)
\* The session has both predictions and the arbitrator's verdict on them.
Arbitrated ==
    /\ tmPrediction # NoPrediction
    /\ geminiPrediction # NoPrediction
    /\ comparisonResult # NoResult

\* C7: in a session with both predictions, the final prediction is that of
\* the side the arbitrator recommends when the recommendation is 'tflite' or
\* 'gemini', and the conflict is handed to the user (the session awaits an
\* explicit choice) exactly when the recommendation is 'manual'.
C7_FinalFollowsRecommendation ==
    (Arbitrated /\ validationStatus # "manual_override"
                /\ anPc \in {"finalized", "awaiting"})
        => /\ (anPc = "finalized" /\ comparisonResult.recommendation = "tflite")
                => prediction = tmPrediction
           /\ (anPc = "finalized" /\ comparisonResult.recommendation = "gemini")
                => prediction = geminiPrediction
           /\ (anPc = "awaiting") <=> (comparisonResult.recommendation = "manual")

(***************************************************************************)
(* Claims about the scanning loop, checked under SpecScan.                 *)
(***************************************************************************)
inFlight(phase) == {t \in ticks : t.phase = phase}

inCaptureOrder(recent) ==
    \A i, j \in DOMAIN recent :
        i < j => recent[i].frame.uri < recent[j].frame.uri

\* C8: scan ticks are never re-entrant - no tick starts while an earlier
\* tick's capture or inference is unfinished, so at most one quickPredict
\* call is in flight and the history holds the tick results in the order
\* their frames were captured.
C8_TicksNotReentrant ==
    /\ Cardinality(ticks) <= 1
    /\ Cardinality(inFlight("infer")) <= 1
    /\ inCaptureOrder(recentPredictions)

\* C9: once stopScanning has run and scanning has not been started again,
\* a tick that finishes - one already in flight when the loop was stopped
\* included - writes none of lastFrameUri, recentPredictions, bestFrame,
\* isStable and the displayed predictions.
C9_StoppedTicksWriteNothing ==
    [][(scanIntervalRef = "null" /\ ticks' # ticks)
          => UNCHANGED <<lastFrameUri, recentPredictions, bestFrame,
                         isStable, predictions>>]_vars

fromSession(frame, n) == frame = NoFrame \/ frame.session = n

\* C10: after the reset of a session every entry that recentPredictions,
\* bestFrame or lastFrameUri holds comes from a frame captured by a tick of
\* that session - no tick started before the reset writes into the new
\* session.
C10_SessionEntriesAreFresh ==
    /\ \A i \in DOMAIN recentPredictions :
         fromSession(recentPredictions[i].frame, session)
    /\ fromSession(bestFrame.frame, session)
    /\ fromSession(lastFrameUri, session)

\* C11: whenever the scanning screen is not focused (another tab or screen
\* is shown, or it is unmounted) no polling interval is active.
C11_NoLoopWithoutFocus ==
    ~camFocused => scanIntervalRef = "null"

\* A step that navigates to ResultsTM.
navigates == resultsImage' # resultsImage /\ resultsImage' # NoFrame

\* C12: a capture triggers the verification exactly once - between two
\* moments the camera screen gains focus at most one navigation to ResultsTM
\* is started, however many times handleCapture is invoked.
C12_OneNavigationPerFocus ==
    [][navigates => resultsImage = NoFrame]_vars

(***************************************************************************)
(* Further claims about an analysis session, checked under SpecAnalysis.   *)
(***************************************************************************)
\* C13: a remote verification call in flight when the user leaves the
\* screen that started it finishes without effect - once the user has left,
\* the end of the call changes no prediction state, opens no conflict and
\* starts no navigation.
C13_LeftResultDiscarded ==
    [][(anGone /\ anPc = "remote")
          => UNCHANGED <<geminiPrediction, comparisonResult, prediction,
                         validationStatus, showPredictionConflict>>]_vars

\* C14: whenever a prediction conflict is pending and the user is on the
\* screen, the exit actions are offered - choosing a side and cancelling
\* are both possible.
C14_ConflictExitsOffered ==
    (showPredictionConflict.pending /\ ~anGone)
        => (ENABLED handleConflictResolution /\ ENABLED cancelConflict)

(***************************************************************************)
(* Claims about stability, best frame and frame selection, checked under   *)
(* SpecTrack.                                                              *)
(***************************************************************************)
\* A tick has pushed its prediction in this step.
tickPushes == recentPredictions' # recentPredictions

\* The history holds at least 5 entries and its last 5 carry one label,
\* which is not 'Not Flower'.
fiveSameFlower(h) ==
    /\ Len(h) >= 5
    /\ \A k \in (Len(h) - 4)..Len(h) : h[k].label = h[Len(h)].label
    /\ h[Len(h)].label # "Not Flower"

currentFrame == [frame |-> lastFrameUri', label |-> predictions'.label,
                 confidence |-> predictions'.confidence]

\* C16: a scan tick replaces bestFrame with the current frame if and only
\* if the tick is stable and bestFrame is empty or the current confidence
\* is strictly greater than bestFrame.confidence, for the same or for a
\* different label; in every other case bestFrame is left as it was.
C16_BestFrameUpdate ==
    [][tickPushes =>
          IF isStable' /\ (bestFrame = EmptyBestFrame
                             \/ currentFrame.confidence > bestFrame.confidence)
            THEN bestFrame' = currentFrame
            ELSE bestFrame' = bestFrame]_vars

C16_Witness ==
    /\ nextFrame = RecentSize + StableCount + 2
    /\ bestFrame.frame = lastFrameUri
    /\ bestFrame.label = "Upo Smooth Female"
    /\ \E k \in DOMAIN recentPredictions :
         recentPredictions[k].label = "Patola Male"

\* handleCapture has passed its guard in this step.
captures == ~isCapturing /\ isCapturing'

\* The step hands frame f to ResultsTM.
navigatesWith(f) == resultsImage' = f /\ freshCapture' = freshCapture

\* The entries of h that are not 'Not Flower' and have the highest
\* confidence among those.
topFlowers(h) ==
    {k \in DOMAIN h :
        /\ h[k].label # "Not Flower"
        /\ \A n \in DOMAIN h :
             h[n].label = "Not Flower" \/ h[n].confidence <= h[k].confidence}

topMean ==
    LET avg == averagedProbs(predictionHistory)
    IN  CHOOSE p \in {avg[i] : i \in 1..numClasses} :
            \A i \in 1..numClasses : avg[i] <= p

notFlowerAt ==
    {k \in DOMAIN smoothed.predictions :
        smoothed.predictions[k].label = "Not Flower"}

descending(out) ==
    \A k \in 1..(Len(out) - 1) : out[k].num >= out[k + 1].num

\* Every model label appears once in out, with its averaged numerator.
carriesMeans(out) ==
    LET avg == averagedProbs(predictionHistory)
    IN  \A i \in 1..numClasses :
            Cardinality({k \in DOMAIN out : out[k].label = labels[i]
                                            /\ out[k].num = avg[i]}) = 1

\* C18: after a call, with p the averaged top-1 probability of the window:
\* if p < 0.70 the returned distribution is the averaged one plus exactly
\* one 'Not Flower' entry of probability 1 - p, in descending order, and
\* its first entry is the synthesized one exactly when 1 - p exceeds every
\* original probability; if p >= 0.70 it is the averaged distribution in
\* descending order with no 'Not Flower' entry, the original top-1 first.
C18_RejectSynthesis ==
    predictionHistory # <<>> =>
        LET n == Len(predictionHistory)
            out == smoothed.predictions
        IN  /\ descending(out)
            /\ carriesMeans(out)
            /\ IF topMean * 100 < 70 * n * Unit
                 THEN /\ Len(out) = numClasses + 1
                      /\ Cardinality(notFlowerAt) = 1
                      /\ \A k \in notFlowerAt :
                             out[k].num = n * Unit - topMean
                      /\ (out[1].label = "Not Flower"
                            <=> n * Unit - topMean > topMean)
                 ELSE /\ Len(out) = numClasses
                      /\ notFlowerAt = {}
                      /\ out[1].num = topMean

\* A call whose averaged top-1 is 0.50: the synthesized entry of 0.50 is
\* added and the original top-1 stays first.
C18_Witness ==
    /\ predictionHistory # <<>>
    /\ topMean * 2 = Len(predictionHistory) * Unit
    /\ notFlowerAt = {2}
    /\ smoothed.predictions[1].label = "Patola Male"

\* The raw output of the latest call.
lastRaw == observed[Len(observed)]

\* The latest historySize calls were fed the same raw output.
fedFiveIdentical ==
    /\ Len(observed) >= historySize
    /\ \A k \in (Len(observed) - historySize + 1)..Len(observed) :
           observed[k] = lastRaw

\* The returned distribution gives every model label the probability raw
\* gives it.
sameProbabilities(raw) ==
    \A i \in 1..numClasses :
        \E k \in DOMAIN smoothed.predictions :
            /\ smoothed.predictions[k].label = labels[i]
            /\ smoothed.predictions[k].num = smoothed.n * raw[i]

\* The top-1 label of a raw output: its largest value, the first of equals.
rawTop(raw) ==
    CHOOSE i \in 1..numClasses :
        \A j \in 1..numClasses :
            raw[i] > raw[j] \/ (raw[i] = raw[j] /\ i <= j)

\* C19 as stated: after 5 consecutive identical raw outputs the returned
\* prediction has the raw output's probability for every label and the raw
\* output's top-1 label.
C19_Original ==
    fedFiveIdentical =>
        /\ sameProbabilities(lastRaw)
        /\ smoothed.predictions[1].label = labels[rawTop(lastRaw)]

\* C19: after 5 consecutive identical raw outputs, whatever was observed
\* before them, the returned distribution gives every model label the raw
\* output's probability, and the returned top-1 is the raw output's top-1
\* label unless its probability p is below 0.70 and 1 - p exceeds p, when
\* the top-1 is the synthesized 'Not Flower'.
C19_SmoothingConvergence ==
    fedFiveIdentical =>
        LET p == lastRaw[rawTop(lastRaw)]
        IN  /\ sameProbabilities(lastRaw)
            /\ smoothed.predictions[1].label =
                  IF p * 100 < 70 * Unit /\ Unit - p > p
                    THEN "Not Flower"
                    ELSE labels[rawTop(lastRaw)]

\* Five identical outputs tied at 0.40 after a different one: the
\* returned top-1 is 'Not Flower'.
C19_Witness ==
    /\ fedFiveIdentical
    /\ Len(observed) > historySize
    /\ observed[1] # lastRaw
    /\ lastRaw[rawTop(lastRaw)] = 40
    /\ smoothed.predictions[1].label = "Not Flower"

\* The window after the outputs of obs are fed one by one to an empty one.
RECURSIVE replay(_)
replay(obs) ==
    IF obs = <<>> THEN <<>>
    ELSE pushHistory(replay(SubSeq(obs, 1, Len(obs) - 1)), obs[Len(obs)])

\* C20: the window holds at most 5 raw outputs, namely the latest
\* min(n, 5) of the n outputs observed since the history was last emptied,
\* in arrival order; the latest result is the one computed from the
\* window, and the window is the same when an output followed by 5 or more
\* later ones is replaced by any other.
C20_WindowBound ==
    LET n == Len(observed)
        m == IF n < historySize THEN n ELSE historySize
    IN  /\ Len(predictionHistory) <= 5
        /\ predictionHistory = SubSeq(observed, n - m + 1, n)
        /\ n > 0 =>
              /\ smoothed = smooth(SubSeq(observed, n - m + 1, n))
              /\ \A k \in 1..(n - historySize) : \A raw \in RawOutputs :
                     replay([observed EXCEPT ![k] = raw]) = predictionHistory

\* Six outputs were observed and the first, now evicted, differs from all
\* five in the window.
C20_Witness ==
    /\ Len(observed) > historySize
    /\ Len(predictionHistory) = historySize
    /\ \A k \in DOMAIN predictionHistory :
           predictionHistory[k] # observed[1]

(***************************************************************************)
(* Claims about the local pipeline (SpecLocal).                            *)
(***************************************************************************)
\* The step is an interval callback that threw.
failedTick ==
    /\ Len(tickLog') = Len(tickLog) + 1
    /\ tickLog'[Len(tickLog')].outcome # "ok"

\* The history entries of the callbacks of log that did not throw, in
\* order.
RECURSIVE okEntries(_)
okEntries(log) ==
    IF log = <<>> THEN <<>>
    ELSE LET e == log[Len(log)]
             rest == okEntries(SubSeq(log, 1, Len(log) - 1))
         IN  IF e.outcome = "ok"
               THEN Append(rest, [label |-> e.label,
                                  confidence |-> e.confidence,
                                  frame |-> e.frame])
               ELSE rest

\* The last m entries of seq, all of them if it has fewer.
lastOf(seq, m) ==
    SubSeq(seq, IF Len(seq) > m THEN Len(seq) - m + 1 ELSE 1, Len(seq))

\* C21: an interval callback whose capture or inference throws leaves
\* recentPredictions, bestFrame, isStable and the smoothing window as they
\* were and the loop active; the history is at all times the one the
\* callbacks that did not throw would have left without the failed ones.
C21_FailedTickSwallowed ==
    /\ [](recentPredictions = lastOf(okEntries(tickLog), RecentSize))
    /\ [][failedTick =>
            /\ UNCHANGED <<recentPredictions, bestFrame, isStable,
                           predictionHistory>>
            /\ scanIntervalRef' = "interval"
            /\ isScanning']_vars

\* A callback threw at inference and the next one pushed its prediction.
C21_Witness ==
    \E k \in DOMAIN tickLog :
        /\ k > 1 /\ k < Len(tickLog)
        /\ tickLog[k].outcome = "predictFailed"
        /\ tickLog[k + 1].outcome = "ok"
        /\ recentPredictions[Len(recentPredictions)].frame
             = tickLog[Len(tickLog)].frame

(***************************************************************************)
(* Claims about the parsing of the remote response (SpecParse).            *)
(***************************************************************************)
analyzed == analyzeFlowerResult.error # "not called"

\* Strict parsing yields the three fields.
strictYields == text.braces /\ text.valid /\ isComplete(text.parsed)

\* C22: analyzeFlower throws for a response text only if the field
\* patterns do not recover variety, gender and confidence from it, and
\* whenever strict JSON parsing does not yield the three fields but the
\* patterns do, it returns the prediction built from the captures.
C22_BestEffortExtraction ==
    analyzed =>
        /\ (analyzeFlowerResult.error # "none" => ~allMatch(text.extracted))
        /\ (~strictYields /\ allMatch(text.extracted) =>
              /\ analyzeFlowerResult.error = "none"
              /\ analyzeFlowerResult.prediction =
                    formatPrediction(fromMatches(text.extracted)))

\* C24: in every prediction formatPrediction builds, isUncertain holds
\* exactly when confidence < 0.5, isLowConfidence exactly when confidence
\* < 0.65, isNotFlower exactly when the variety is 'not_flower', and
\* shouldReject is isNotFlower or isUncertain; isUncertain implies
\* isLowConfidence.
C24_ConfidenceFlags ==
    analyzed /\ analyzeFlowerResult.error = "none" =>
        LET made == analyzeFlowerResult.prediction
            flags == analyzeFlowerResult.flags
        IN  /\ flags.isUncertain <=> made.rawScore < 500
            /\ flags.isLowConfidence <=> made.rawScore < 650
            /\ made.isNotFlower
                  <=> parseResponse(text).geminiResult.variety = "not_flower"
            /\ flags.shouldReject <=> (made.isNotFlower \/ flags.isUncertain)
            /\ flags.isUncertain => flags.isLowConfidence

\* A flower at confidence 0.5: low confidence, not uncertain, not rejected.
C24_Witness ==
    /\ analyzed
    /\ analyzeFlowerResult.error = "none"
    /\ analyzeFlowerResult.prediction.rawScore = 500
    /\ analyzeFlowerResult.prediction.variety = "Patola"
    /\ analyzeFlowerResult.flags.isLowConfidence
    /\ ~analyzeFlowerResult.flags.shouldReject

(***************************************************************************)
(* Claims about the degraded analysis session (SpecAnalysis).              *)
(***************************************************************************)
\* The step ends the local call and finds the remote classifier disabled,
\* without key or not initialized.
remoteUnavailable ==
    anPc = "local" /\ anPc' # "local" /\ tmPrediction' # NoPrediction
    /\ ~(gemEnabled' /\ gemInitialized')

\* The step ends a remote call that left no remote prediction.
remoteFailed ==
    anPc = "remote" /\ anPc' # "remote" /\ geminiPrediction' = NoPrediction

\* C23: when the remote classifier is disabled, has no key, fails to
\* initialize, or its call fails, the session of a screen that is still
\* shown ends with the local prediction as the final prediction, no remote
\* prediction, no comparison result, no new conflict and no error.
C23_LocalOnlyFallback ==
    [][~anGone /\ (remoteUnavailable \/ remoteFailed) =>
          /\ anPc' = "finalized"
          /\ prediction' = tmPrediction'
          /\ geminiPrediction' = NoPrediction
          /\ comparisonResult' = NoResult
          /\ UNCHANGED showPredictionConflict
          /\ ~analysisError']_vars

\* The remote call of an available classifier failed and the session
\* ended on the local prediction.
C23_Witness ==
    /\ anPc = "finalized"
    /\ ~anGone
    /\ gemEnabled /\ gemInitialized
    /\ geminiPrediction = NoPrediction
    /\ prediction = tmPrediction
    /\ prediction # NoPrediction

stableTicks == {k \in DOMAIN tickLog :
                   tickLog[k].outcome = "ok" /\ tickLog[k].stable}

\* The frame, label and confidence of callback k.
tickFrame(k) == [frame |-> tickLog[k].frame, label |-> tickLog[k].label,
                 confidence |-> tickLog[k].confidence]

\* C27: within a session bestFrame.confidence never decreases; bestFrame is
\* empty with confidence 0 if no tick since the reset was stable, and else
\* holds the frame, label and confidence of a stable tick whose confidence
\* is the maximum over all stable ticks since the reset; its label is
\* never 'Not Flower'.
C27_BestFrameIsMaximum ==
    /\ [](IF stableTicks = {} THEN bestFrame = EmptyBestFrame
          ELSE \E k \in stableTicks :
                 /\ bestFrame = tickFrame(k)
                 /\ \A n \in stableTicks :
                      tickLog[n].confidence <= bestFrame.confidence)
    /\ [](bestFrame.label # "Not Flower")
    /\ [][bestFrame'.confidence >= bestFrame.confidence]_vars

C27_Witness ==
    /\ Cardinality(stableTicks) = 2
    /\ bestFrame.frame = lastFrameUri
    /\ bestFrame.confidence = 660
    /\ \E k \in stableTicks : tickLog[k].confidence = 600

(***************************************************************************)
(* The local prediction of the analysis (SpecLocal).                       *)
(***************************************************************************)
\* runAnalysis has obtained its local prediction in this step.
analysesLocally == anPc = "idle" /\ anPc' = "tmDone"

\* The prediction the service returns for output tensor raw on an empty
\* smoothing window.
aloneOf(raw) ==
    LET alone == smooth(<<raw>>)
    IN  tmPredOf(wordsOf(alone.predictions[1].label),
                 probability(alone.predictions[1], alone.n))

\* C28: the local prediction runAnalysis computes for the selected frame is
\* a function of that frame alone: it is the prediction of the frame's own
\* output tensor, and no output of an earlier frame is in the smoothing
\* window when the selected frame is analysed.
C28_SelectedFrameAlone ==
    [][analysesLocally =>
          /\ predictionHistory' = <<observed'[Len(observed')]>>
          /\ tmPrediction' = aloneOf(observed'[Len(observed')])]_vars

(***************************************************************************)
(* The position of the synthesized entry (SpecSmooth).                     *)
(***************************************************************************)
\* C29: with p the averaged top-1 probability of the window, the returned
\* top-1 is the synthesized 'Not Flower' entry exactly when p < 0.5; for
\* 0.5 <= p < 0.70 the original top-1 stays first and isUncertain is true;
\* a top-1 'Not Flower' carries a probability strictly above 0.5.
C29_NotFlowerTopBelowHalf ==
    predictionHistory # <<>> =>
        LET n == Len(predictionHistory)
            top == smoothed.predictions[1]
        IN  /\ top.label = "Not Flower" <=> 2 * topMean < n * Unit
            /\ (2 * topMean >= n * Unit /\ topMean * 100 < 70 * n * Unit)
                  => /\ top.label \in {labels[i] : i \in 1..numClasses}
                     /\ top.num = topMean
                     /\ smoothed.isUncertain
            /\ top.label = "Not Flower" => 2 * top.num > n * Unit

C29_Witness ==
    /\ predictionHistory # <<>>
    /\ 2 * topMean = Len(predictionHistory) * Unit
    /\ smoothed.isUncertain
    /\ smoothed.predictions[1].label = "Patola Male"
    /\ smoothed.predictions[2].label = "Not Flower"
    /\ smoothed.predictions[2].num = smoothed.predictions[1].num

(***************************************************************************)
(* Overlapping calls of initialize (SpecInit).                             *)
(***************************************************************************)
\* Call c resolves to true in this step.
resolvesTrue(c) ==
    /\ c \in DOMAIN initCalls'
    /\ initCalls'[c].pc = "true"
    /\ (c \in DOMAIN initCalls => initCalls[c].pc # "true")

\* C30: whenever initialize(type) resolves to true the service is ready
\* and holds the model of the requested type, also for a call made while
\* an initialization for the other type was in progress; at most one
\* model load is in progress at any time.
C30_InitializeResolvesReady ==
    /\ [](Cardinality(loadsInProgress) <= 1)
    /\ [][\A c \in 1..MaxInitCalls :
            resolvesTrue(c) =>
                /\ isReady'
                /\ modelType' = initCalls'[c].type
                /\ model' = initCalls'[c].type]_vars

====
